---- MODULE Spec2Model ----
(***************************************************************************)
(* Vanta launcher front end: the query dispatch and interaction state      *)
(* machine of src/routes/+page.svelte and its SearchInput component, with  *)
(* the download status of StatusBar and the save timer of SettingsView.    *)
(*                                                                         *)
(* JavaScript runs one handler at a time; a handler runs atomically up to  *)
(* its next `await`, and the rest of it runs atomically when the awaited   *)
(* backend call settles.  Each action below is one such atomic piece.      *)
(* Strings are sequences of one-character strings.                         *)
(***************************************************************************)
EXTENDS Integers, Sequences, FiniteSets, TLC

\* ------------------------------------------------------------------ bounds
MaxItems == 2       \* longest list a backend reply carries
MaxEvents == 3      \* user and push events explored in one session
MaxLatency == 1     \* distinct measured durations
MaxLen == 5         \* longest query of the resolver specification
MaxNav == 3         \* longest list of the navigation specification
MaxEdits == 4       \* events of a session of the settings specification
MaxDownloads == 5   \* download_status events of the status bar specification

\* ----------------------------------------------------------------- strings
SP == " "
TAB == "\t"
EmptyStr == << >>
Null == << >>

IsWhitespace(c) == c \in {SP, TAB}

\* String.prototype.toLowerCase, per character
LowerChar(c) == IF c = "H" THEN "h" ELSE IF c = "A" THEN "a" ELSE c
toLowerCase(s) == [i \in 1..Len(s) |-> LowerChar(s[i])]

RECURSIVE trimStart(_)
trimStart(s) ==
    IF s # << >> /\ IsWhitespace(Head(s)) THEN trimStart(Tail(s)) ELSE s

RECURSIVE trimEnd(_)
trimEnd(s) ==
    IF s # << >> /\ IsWhitespace(s[Len(s)])
    THEN trimEnd(SubSeq(s, 1, Len(s) - 1))
    ELSE s

\* String.prototype.trim
trim(s) == trimEnd(trimStart(s))

\* s.indexOf(" "): 0-based index of the first space character, -1 if none
indexOfSpace(s) ==
    IF \E i \in 1..Len(s) : s[i] = SP
    THEN (CHOOSE i \in 1..Len(s) : s[i] = SP /\ \A j \in 1..(i - 1) : s[j] # SP) - 1
    ELSE -1

\* s.slice(from, to) and s.slice(from) with 0-based, end-exclusive offsets
slice(s, from, to) == SubSeq(s, from + 1, to)
sliceFrom(s, from) == SubSeq(s, from + 1, Len(s))

\* s.toLowerCase().includes(lower)
includes(s, sub) ==
    \E i \in 0..(Len(s) - Len(sub)) : SubSeq(s, i + 1, i + Len(sub)) = sub

\* ------------------------------------------------------------ ModeResolver
NoMatch == [matched |-> FALSE, keyword |-> EmptyStr, args |-> EmptyStr]

\* availableScripts.find(s => s.keyword.toLowerCase() === keyword.toLowerCase())
findScript(registry, keyword) ==
    LET hits == {i \in 1..Len(registry) :
                    toLowerCase(registry[i].keyword) = toLowerCase(keyword)}
    IN  IF hits = {} THEN 0 ELSE CHOOSE i \in hits : \A j \in hits : i <= j

\* A detectScriptQuery that accepts a keyword the typed token merely starts
detectScriptQuery_prefix(q, registry) ==
    LET trimmed == trim(q)
        firstSpace == indexOfSpace(trimmed)
        keyword == IF firstSpace > 0 THEN slice(trimmed, 0, firstSpace) ELSE trimmed
        args == IF firstSpace > 0 THEN trim(sliceFrom(trimmed, firstSpace + 1))
                ELSE EmptyStr
        hits == {i \in 1..Len(registry) :
                    /\ Len(registry[i].keyword) >= Len(keyword)
                    /\ toLowerCase(SubSeq(registry[i].keyword, 1, Len(keyword)))
                          = toLowerCase(keyword)}
        hit == IF hits = {} THEN 0 ELSE CHOOSE i \in hits : \A j \in hits : i <= j
    IN  IF trimmed = EmptyStr THEN NoMatch
        ELSE IF hit # 0
             THEN [matched |-> TRUE, keyword |-> registry[hit].keyword, args |-> args]
             ELSE NoMatch

detectScriptQuery(q, registry) ==
    LET trimmed == trim(q)
        firstSpace == indexOfSpace(trimmed)
        keyword == IF firstSpace > 0 THEN slice(trimmed, 0, firstSpace) ELSE trimmed
        args == IF firstSpace > 0 THEN trim(sliceFrom(trimmed, firstSpace + 1))
                ELSE EmptyStr
        hit == findScript(registry, keyword)
    IN  IF trimmed = EmptyStr THEN NoMatch
        ELSE IF hit # 0
             THEN [matched |-> TRUE, keyword |-> registry[hit].keyword, args |-> args]
             ELSE NoMatch

\* -------------------------------------------------------------- data model
\* exec strings carry a prefix convention: fill:<text>, copy:<text>,
\* install:<arg>; anything else is a launch / open target ("plain").
Exec(kind, arg) == [kind |-> kind, arg |-> arg]
FillText == <<"a", "b">>
InstallArg == <<"x">>
Target == <<"p">>
InstallWord == <<"i", "n", "s", "t", "a", "l", "l">>

\* SearchResult (types.ts): title, exec and source are what the controller reads;
\* title stands for the query the backend matched the item against.
ResultItem(title, rank, exec, source) ==
    [title |-> title, rank |-> rank, exec |-> exec, source |-> source]

\* What the backend ranks for query q at position rank (search / get_suggestions).
BackendItem(q, rank) ==
    IF q = <<"a">>
    THEN IF rank % 2 = 1
         THEN ResultItem(q, rank, Exec("fill", FillText), "Application")
         ELSE ResultItem(q, rank, Exec("install", InstallArg), "Application")
    ELSE IF rank % 2 = 1
         THEN ResultItem(q, rank, Exec("plain", Target), "Application")
         ELSE ResultItem(q, rank, Exec("plain", Target), "File")

SearchReplies(q) == {[i \in 1..n |-> BackendItem(q, i)] : n \in 0..MaxItems}

\* ScriptItem (types.ts): action is optional ("none" when absent).
NoAction == [type |-> "none", value |-> EmptyStr]
ScriptItem(kw, args, rank, action, urgency, subtitle) ==
    [kw |-> kw, args |-> args, rank |-> rank, action |-> action,
     urgency |-> urgency, subtitle |-> subtitle]

ScriptActionAt(rank) ==
    IF rank % 4 = 1 THEN [type |-> "run", value |-> <<"r">>]
    ELSE IF rank % 4 = 2 THEN NoAction
    ELSE IF rank % 4 = 3 THEN [type |-> "copy", value |-> <<"c">>]
    ELSE [type |-> "open", value |-> <<"u">>]

\* Outputs a script may print: up to MaxItems items, starting at any point of
\* the run / none / copy / open cycle of actions
ScriptReplies(kw, args) ==
    {[i \in 1..n |->
         ScriptItem(kw, args, i + off, ScriptActionAt(i + off), "normal", "")] :
        n \in 0..MaxItems, off \in {0, 2}}

\* The synthetic item handleSearch shows when execute_script fails.
ScriptErrorItem(keyword) ==
    ScriptItem(keyword, EmptyStr, 0, NoAction, "critical", "error")

\* ClipboardItem {id, content, timestamp}
ClipContent(id) == IF id % 2 = 1 THEN <<"A", "b">> ELSE <<"h">>
ClipEntry(id) == [id |-> id, content |-> ClipContent(id)]
ClipboardHistories == {[i \in 1..n |-> ClipEntry(i)] : n \in 0..MaxItems}

\* ScriptEntry registries the backend can deliver (get_scripts, scripts-changed)
ScriptEntry(keyword) == [keyword |-> keyword]
Registries == {<< >>, <<ScriptEntry(<<"h">>)>>}

\* ThemeMeta lists get_installed_themes can deliver
ThemeMeta(id) == [id |-> id]
ThemeLists == {<< >>, <<ThemeMeta("default")>>}

\* The push events onMount subscribes to, in the order of its listen calls
\* (focus-changed is appWindow.onFocusChanged, whose handler is empty)
MountEvents ==
    <<"config-updated", "blur-status", "scripts-changed", "open_clipboard",
      "focus-changed", "tauri://focus">>
AllEvents == {MountEvents[k] : k \in 1..Len(MountEvents)}

\* Strings the user can put into the input box
Queries ==
    {EmptyStr, <<"a">>, <<"a", "b">>, <<"h", SP, "a">>, <<SP>>}

Latencies == 1..MaxLatency

\* A backend call in flight: the command, its arguments, the continuation that
\* runs when it settles, and whether a handleActivate is awaiting that
\* continuation (the fill: path awaits handleSearch).
Call(cmd, kw, arg, cont, awaited) ==
    [cmd |-> cmd, kw |-> kw, arg |-> arg, cont |-> cont, awaited |-> awaited]

\* ------------------------------------------------------------------- state
VARIABLES
    query,                \* +page.svelte: let query = $state("")
    results,              \* launcher / clipboard list
    scriptResults,        \* script list
    isScriptMode,
    activeScriptKeyword,
    selectedIndex,        \* 0-based, as in the source
    searchTime,           \* Null or <<elapsed>>
    availableScripts,     \* ScriptRegistry
    actionInFlight,
    isVisible,
    currentMode,          \* "launcher" | "clipboard"
    clipboardHistory,
    view,                 \* "launcher" | "settings"
    vantaConfig,          \* TRUE once a config is loaded (undefined before)
    availableThemes,      \* ThemeMeta[]
    listening,            \* push events whose listener is registered
    configValue,          \* the content of vantaConfig (one edited field)
    saveTimers,           \* SettingsView: pending 500 ms save timers, of the
                          \* live instance and of destroyed instances
    downloadStatus,       \* StatusBar: "idle" | "downloading" | "success" | "failed"
    idleTimers,           \* StatusBar: pending 3 s timers, each named by the
                          \* status whose event started it, oldest first
    inflight,             \* backend calls awaiting their response, in issue order
    debounceTimer,        \* per SearchInput instance: its pending timer callbacks
    graceTimers,          \* pending setTimeout(() => actionInFlight = false, 200)
    focusTimers,          \* pending 50 ms timers of the tauri://focus listener
    hideCalls,            \* hide_window calls awaiting their response
    windowShown,          \* environment: the backend's window is on screen
    issued,               \* history: backend calls issued by the latest step
    lastOp,               \* history: the handler that ran in the latest step
    prev,                 \* history: mode, query and view before the latest step
    answered,             \* history: the backend call the latest step settled
    burst,                \* history: keystrokes of the latest burst (each one
                          \* arriving while the previous one's timer is pending)
    events                \* history: user and push events so far

vars ==
    <<query, results, scriptResults, isScriptMode, activeScriptKeyword,
      selectedIndex, searchTime, availableScripts, actionInFlight, isVisible,
      currentMode, clipboardHistory, view, vantaConfig, availableThemes,
      listening, configValue, saveTimers, downloadStatus, idleTimers, inflight,
      debounceTimer,
      graceTimers, focusTimers, hideCalls,
      windowShown, issued, lastOp, prev, answered, burst, events>>

\* The session as one record; handlers map a session to the session they leave.
State ==
    [query |-> query, results |-> results, scriptResults |-> scriptResults,
     isScriptMode |-> isScriptMode, activeScriptKeyword |-> activeScriptKeyword,
     selectedIndex |-> selectedIndex, searchTime |-> searchTime,
     availableScripts |-> availableScripts, actionInFlight |-> actionInFlight,
     isVisible |-> isVisible, currentMode |-> currentMode,
     clipboardHistory |-> clipboardHistory, view |-> view,
     vantaConfig |-> vantaConfig, availableThemes |-> availableThemes,
     listening |-> listening, configValue |-> configValue,
     saveTimers |-> saveTimers, downloadStatus |-> downloadStatus,
     idleTimers |-> idleTimers, inflight |-> inflight,
     debounceTimer |-> debounceTimer, graceTimers |-> graceTimers,
     focusTimers |-> focusTimers, hideCalls |-> hideCalls,
     windowShown |-> windowShown, issued |-> << >>, answered |-> << >>]

\* totalItems = $derived(isScriptMode ? scriptResults.length : results.length)
totalItems(s) == IF s.isScriptMode THEN Len(s.scriptResults) ELSE Len(s.results)

\* invoke(cmd, ...): the call leaves; its continuation waits for the response
invoke(s, call) ==
    [s EXCEPT !.inflight = Append(@, call),
              !.issued = Append(@, [cmd |-> call.cmd, kw |-> call.kw, arg |-> call.arg])]

\* invoke("hide_window").catch(log): nothing in the session waits for it
invokeHide(s) ==
    [s EXCEPT !.hideCalls = @ + 1,
              !.issued = Append(@, [cmd |-> "hide_window", kw |-> EmptyStr, arg |-> EmptyStr])]

\* finally { setTimeout(() => (actionInFlight = false), 200) }
scheduleGrace(s) == [s EXCEPT !.graceTimers = @ + 1]

\* ------------------------------------------------------------- ResultStore
\* results = clipboardHistory[.filter(...)].map(...); selectedIndex = 0
ClipResult(item) ==
    ResultItem(item.content, item.id, Exec("copy", item.content), "Clipboard")

\* An updateClipboardSuggestions that compares the content as it is written
updateClipboardSuggestions_caseSensitive(s, q) ==
    LET keep(item) == q = EmptyStr \/ includes(item.content, toLowerCase(q))
        filtered == SelectSeq(s.clipboardHistory, keep)
    IN  [s EXCEPT !.results = [i \in 1..Len(filtered) |-> ClipResult(filtered[i])],
                  !.selectedIndex = 0]

updateClipboardSuggestions(s, q) ==
    LET lower == toLowerCase(q)
        keep(item) == q = EmptyStr \/ includes(toLowerCase(item.content), lower)
        filtered == SelectSeq(s.clipboardHistory, keep)
    IN  [s EXCEPT !.results = [i \in 1..Len(filtered) |-> ClipResult(filtered[i])],
                  !.selectedIndex = 0]

\* loadSuggestions up to its await
loadSuggestions(s, awaited) ==
    invoke(s, Call("get_suggestions", EmptyStr, EmptyStr, "suggestions", awaited))

\* A handleSearch that never takes the script branch
handleSearch_searchOnly(s, q, awaited) ==
    IF s.currentMode = "clipboard"
    THEN updateClipboardSuggestions(s, q)
    ELSE IF trim(q) = EmptyStr
    THEN loadSuggestions(
             [s EXCEPT !.isScriptMode = FALSE, !.activeScriptKeyword = EmptyStr,
                       !.scriptResults = << >>, !.searchTime = Null],
             awaited)
    ELSE invoke(
             [s EXCEPT !.isScriptMode = FALSE, !.activeScriptKeyword = EmptyStr,
                       !.scriptResults = << >>],
             Call("search", EmptyStr, q, "search", awaited))

\* A handleSearch whose empty-query branch leaves the Script mode as it is
handleSearch_keepsScriptOnEmpty(s, q, awaited) ==
    LET scriptMatch == detectScriptQuery(q, s.availableScripts)
    IN  IF s.currentMode = "clipboard"
        THEN updateClipboardSuggestions(s, q)
        ELSE IF trim(q) = EmptyStr
        THEN loadSuggestions([s EXCEPT !.searchTime = Null], awaited)
        ELSE IF scriptMatch.matched
        THEN invoke(
                 [s EXCEPT !.isScriptMode = TRUE,
                           !.activeScriptKeyword = scriptMatch.keyword,
                           !.results = << >>],
                 Call("execute_script", scriptMatch.keyword, scriptMatch.args,
                      "script", awaited))
        ELSE invoke(
                 [s EXCEPT !.isScriptMode = FALSE, !.activeScriptKeyword = EmptyStr,
                           !.scriptResults = << >>],
                 Call("search", EmptyStr, q, "search", awaited))

\* handleSearch(q) up to its first await (or to its end, in Clipboard mode).
\* awaited: a handleActivate (fill:) is awaiting this call.
handleSearch(s, q, awaited) ==
    LET scriptMatch == detectScriptQuery(q, s.availableScripts)
    IN  IF s.currentMode = "clipboard"
        THEN updateClipboardSuggestions(s, q)
        ELSE IF trim(q) = EmptyStr
        THEN loadSuggestions(
                 [s EXCEPT !.isScriptMode = FALSE, !.activeScriptKeyword = EmptyStr,
                           !.scriptResults = << >>, !.searchTime = Null],
                 awaited)
        ELSE IF scriptMatch.matched
        THEN invoke(
                 [s EXCEPT !.isScriptMode = TRUE,
                           !.activeScriptKeyword = scriptMatch.keyword,
                           !.results = << >>],
                 Call("execute_script", scriptMatch.keyword, scriptMatch.args,
                      "script", awaited))
        ELSE invoke(
                 [s EXCEPT !.isScriptMode = FALSE, !.activeScriptKeyword = EmptyStr,
                           !.scriptResults = << >>],
                 Call("search", EmptyStr, q, "search", awaited))

\* The rest of loadSuggestions once get_suggestions settles
suggestionsSettled(s, ok, payload) ==
    IF ok
    THEN [s EXCEPT !.results = payload,
                   !.selectedIndex = IF Len(payload) > 0 THEN 0 ELSE @]
    ELSE s

\* The rest of handleSearch once search settles
searchSettled(s, ok, payload, elapsed) ==
    IF ok
    THEN [s EXCEPT !.results = payload, !.selectedIndex = 0,
                   !.searchTime = <<elapsed>>]
    ELSE [s EXCEPT !.results = << >>, !.searchTime = Null]

\* The rest of handleSearch once execute_script settles
scriptSettled(s, keyword, ok, payload, elapsed) ==
    IF ok
    THEN [s EXCEPT !.scriptResults = payload, !.selectedIndex = 0,
                   !.searchTime = <<elapsed>>]
    ELSE [s EXCEPT !.scriptResults = <<ScriptErrorItem(keyword)>>,
                   !.searchTime = Null]

\* ------------------------------------------------- LifecycleCoordinator
\* A resetAndHide that forgets to clear the script list
resetAndHide_keepsScript(s) ==
    LET s1 == loadSuggestions([s EXCEPT !.query = EmptyStr], FALSE)
    IN  invokeHide(
            [s1 EXCEPT !.isScriptMode = FALSE,
                       !.currentMode = "launcher", !.activeScriptKeyword = EmptyStr,
                       !.selectedIndex = 0, !.searchTime = Null,
                       !.isVisible = FALSE])

resetAndHide(s) ==
    LET s1 == loadSuggestions([s EXCEPT !.query = EmptyStr], FALSE)
    IN  invokeHide(
            [s1 EXCEPT !.scriptResults = << >>, !.isScriptMode = FALSE,
                       !.currentMode = "launcher", !.activeScriptKeyword = EmptyStr,
                       !.selectedIndex = 0, !.searchTime = Null,
                       !.isVisible = FALSE])

\* A handleEscape that first leaves Clipboard mode and stays open
handleEscape_backToLauncher(s) ==
    IF s.currentMode = "clipboard" /\ s.query = EmptyStr
    THEN [s EXCEPT !.currentMode = "launcher"]
    ELSE resetAndHide(s)

handleEscape(s) ==
    IF s.currentMode = "clipboard" /\ s.query = EmptyStr
    THEN resetAndHide(s)
    ELSE resetAndHide(s)

\* ---------------------------------------------------- ActivationDispatcher
InstallPrefix == <<"i", "n", "s", "t", "a", "l", "l", ":">>

\* A handleActivate without the fill: branch: the item is launched
handleActivate_fillLaunches(s, result) ==
    LET s1 == [s EXCEPT !.actionInFlight = TRUE]
        e == result.exec
    IN  IF e.kind = "copy"
        THEN invoke(s1, Call("clipboard_write", EmptyStr, e.arg, "activate_reset", FALSE))
        ELSE IF e.kind = "install"
        THEN invoke(s1, Call("launch_app", EmptyStr, InstallPrefix \o e.arg,
                             "activate_stay", FALSE))
        ELSE IF result.source = "File"
        THEN invoke(s1, Call("open_path", EmptyStr, e.arg, "activate_reset", FALSE))
        ELSE invoke(s1, Call("launch_app", EmptyStr, e.arg, "activate_reset", FALSE))

\* handleActivate(result) up to its first await
handleActivate(s, result) ==
    LET s1 == [s EXCEPT !.actionInFlight = TRUE]
        e == result.exec
    IN  IF e.kind = "fill"
        THEN LET r == handleSearch([s1 EXCEPT !.query = e.arg], e.arg, TRUE)
             IN  \* in Clipboard mode handleSearch returns without awaiting
                 IF s1.currentMode = "clipboard" THEN scheduleGrace(r) ELSE r
        ELSE IF e.kind = "copy"
        THEN invoke(s1, Call("clipboard_write", EmptyStr, e.arg, "activate_reset", FALSE))
        ELSE IF e.kind = "install"
        THEN invoke(s1, Call("launch_app", EmptyStr, InstallPrefix \o e.arg,
                             "activate_stay", FALSE))
        ELSE IF result.source = "File"
        THEN invoke(s1, Call("open_path", EmptyStr, e.arg, "activate_reset", FALSE))
        ELSE invoke(s1, Call("launch_app", EmptyStr, e.arg, "activate_reset", FALSE))

\* A handleScriptActivate whose open action leaves the window open
handleScriptActivate_openStays(s, item) ==
    LET s1 == [s EXCEPT !.actionInFlight = TRUE]
        a == item.action
    IN  IF a.type = "none" THEN s
        ELSE IF a.type = "copy"
        THEN invoke(s1, Call("clipboard_write", EmptyStr, a.value, "activate_reset", FALSE))
        ELSE IF a.type = "open"
        THEN invoke(s1, Call("open_url", EmptyStr, a.value, "activate_stay", FALSE))
        ELSE invoke(s1, Call("launch_app", EmptyStr, a.value, "activate_reset", FALSE))

\* A handleScriptActivate that raises the flag before it looks at the action
handleScriptActivate_flagsNoAction(s, item) ==
    LET s1 == [s EXCEPT !.actionInFlight = TRUE]
        a == item.action
    IN  IF a.type = "none" THEN scheduleGrace(s1)
        ELSE IF a.type = "copy"
        THEN invoke(s1, Call("clipboard_write", EmptyStr, a.value, "activate_reset", FALSE))
        ELSE IF a.type = "open"
        THEN invoke(s1, Call("open_url", EmptyStr, a.value, "activate_reset", FALSE))
        ELSE invoke(s1, Call("launch_app", EmptyStr, a.value, "activate_reset", FALSE))

\* handleScriptActivate(item) up to its await
handleScriptActivate(s, item) ==
    LET s1 == [s EXCEPT !.actionInFlight = TRUE]
        a == item.action
    IN  IF a.type = "none" THEN s
        ELSE IF a.type = "copy"
        THEN invoke(s1, Call("clipboard_write", EmptyStr, a.value, "activate_reset", FALSE))
        ELSE IF a.type = "open"
        THEN invoke(s1, Call("open_url", EmptyStr, a.value, "activate_reset", FALSE))
        ELSE invoke(s1, Call("launch_app", EmptyStr, a.value, "activate_reset", FALSE))

\* A continuation that closes the session after every successful call
activateSettled_ignoresStay(s, reset, ok) ==
    scheduleGrace(IF ok THEN resetAndHide(s) ELSE s)

\* A continuation that closes the session whether or not the call succeeded
activateSettled_resetOnFailure(s, reset, ok) ==
    scheduleGrace(IF reset THEN resetAndHide(s) ELSE s)

\* A continuation that releases the flag only after a successful call
activateSettled_noFinally(s, reset, ok) ==
    IF ok THEN scheduleGrace(IF reset THEN resetAndHide(s) ELSE s) ELSE s

\* The rest of handleActivate / handleScriptActivate once the call settles:
\* resetAndHide on success (not for install:), then the finally block.
activateSettled(s, reset, ok) ==
    scheduleGrace(IF ok /\ reset THEN resetAndHide(s) ELSE s)

\* The rest of the open_clipboard listener once get_clipboard_history settles;
\* it then awaits show_window.
clipboardSettled(s, ok, payload) ==
    LET s1 == IF ok
              THEN updateClipboardSuggestions([s EXCEPT !.clipboardHistory = payload],
                                              EmptyStr)
              ELSE s
    IN  [s1 EXCEPT !.windowShown = TRUE,
                   !.issued = Append(@, [cmd |-> "show_window", kw |-> EmptyStr,
                                         arg |-> EmptyStr])]

\* ---------------------------------------------------- NavigationController
\* Element i (0-based) of a JavaScript array, as results[selectedIndex] reads it
HasItem(list, i) == i >= 0 /\ i < Len(list)
At(list, i) == list[i + 1]

ArrowDown(s) == [s EXCEPT !.selectedIndex = (s.selectedIndex + 1) % totalItems(s)]

\* An ArrowUp that stops at the first item
ArrowUp_noWrap(s) ==
    [s EXCEPT !.selectedIndex = IF s.selectedIndex <= 0 THEN 0 ELSE s.selectedIndex - 1]

ArrowUp(s) ==
    [s EXCEPT !.selectedIndex =
        IF s.selectedIndex <= 0 THEN totalItems(s) - 1 ELSE s.selectedIndex - 1]

Enter(s) ==
    IF s.isScriptMode /\ HasItem(s.scriptResults, s.selectedIndex)
    THEN handleScriptActivate(s, At(s.scriptResults, s.selectedIndex))
    ELSE IF HasItem(s.results, s.selectedIndex)
    THEN handleActivate(s, At(s.results, s.selectedIndex))
    ELSE s

\* A Tab without the autocomplete branches: it only moves the selection
Tab_movesOnly(s, shiftKey) == IF shiftKey THEN ArrowUp(s) ELSE ArrowDown(s)

\* A Tab that ignores the Shift key
Tab_shiftIgnored(s, shiftKey) ==
    LET res == At(s.results, s.selectedIndex)
        q == (InstallWord \o <<SP>>) \o res.exec.arg \o <<SP>>
    IN  IF ~s.isScriptMode /\ HasItem(s.results, s.selectedIndex)
           /\ res.exec.kind = "fill"
        THEN handleActivate(s, res)
        ELSE IF ~s.isScriptMode /\ HasItem(s.results, s.selectedIndex)
                /\ res.exec.kind = "install"
        THEN handleSearch([s EXCEPT !.query = q], q, FALSE)
        ELSE ArrowDown(s)

Tab(s, shiftKey) ==
    LET res == At(s.results, s.selectedIndex)
        q == (InstallWord \o <<SP>>) \o res.exec.arg \o <<SP>>
    IN  IF ~s.isScriptMode /\ HasItem(s.results, s.selectedIndex)
           /\ res.exec.kind = "fill"
        THEN handleActivate(s, res)
        ELSE IF ~s.isScriptMode /\ HasItem(s.results, s.selectedIndex)
                /\ res.exec.kind = "install"
        THEN handleSearch([s EXCEPT !.query = q], q, FALSE)
        ELSE IF shiftKey THEN ArrowUp(s) ELSE ArrowDown(s)

Keys == {"ArrowDown", "ArrowUp", "Enter", "Tab", "Escape", ",", "x"}

\* A handleKeydown whose settings branch lets the other keys through
handleKeydown_settingsLeaks(s, key, ctrlKey, shiftKey) ==
    IF key = "," /\ ctrlKey
    THEN [s EXCEPT !.view = IF s.view = "launcher" THEN "settings" ELSE "launcher"]
    ELSE IF s.view = "settings" /\ key \in {"Escape", "Enter"}
    THEN [s EXCEPT !.view = "launcher"]
    ELSE IF totalItems(s) = 0 THEN s
    ELSE IF key = "ArrowDown" THEN ArrowDown(s)
    ELSE IF key = "ArrowUp" THEN ArrowUp(s)
    ELSE IF key = "Enter" THEN Enter(s)
    ELSE IF key = "Tab" THEN Tab(s, shiftKey)
    ELSE s

\* handleKeydown on <svelte:window>
handleKeydown(s, key, ctrlKey, shiftKey) ==
    IF key = "," /\ ctrlKey
    THEN [s EXCEPT !.view = IF s.view = "launcher" THEN "settings" ELSE "launcher"]
    ELSE IF s.view = "settings"
    THEN IF key \in {"Escape", "Enter"} THEN [s EXCEPT !.view = "launcher"] ELSE s
    ELSE IF totalItems(s) = 0 THEN s
    ELSE IF key = "ArrowDown" THEN ArrowDown(s)
    ELSE IF key = "ArrowUp" THEN ArrowUp(s)
    ELSE IF key = "Enter" THEN Enter(s)
    ELSE IF key = "Tab" THEN Tab(s, shiftKey)
    ELSE s

\* ------------------------------------------------------------- rendering
\* Which SearchInput instance the template of +page.svelte renders: the
\* settings view replaces everything once a config is loaded; Clipboard mode
\* and the launcher each render their own instance (own debounce timer).
InputInstance(s) ==
    IF s.view = "settings" /\ s.vantaConfig THEN "none"
    ELSE IF s.currentMode = "clipboard" THEN "clipboard"
    ELSE "launcher"

\* Which list the template renders: "script", "results" or "none"
RenderedList(s) ==
    IF s.view = "settings" /\ s.vantaConfig THEN "none"
    ELSE IF s.currentMode = "clipboard" THEN "results"
    ELSE IF s.isScriptMode THEN "script"
    ELSE "results"

\* onSearch of the instance: the launcher's is handleSearch, the Clipboard
\* view's is (q) => updateClipboardSuggestions(q)
onSearch(s, inst, q) ==
    IF inst = "clipboard" THEN updateClipboardSuggestions(s, q)
    ELSE handleSearch(s, q, FALSE)

\* A handleInput that starts a timer without cancelling the pending one
handleInput_noClear(s, inst) == [s EXCEPT !.debounceTimer[inst] = @ + 1]

\* SearchInput.handleInput: clearTimeout(debounceTimer) drops the pending
\* callback, setTimeout(..., 50) adds one.  (A keystroke in a re-created
\* instance could not clear a timer its destroyed predecessor left pending;
\* that needs a keystroke, a change of view, a change back and a keystroke,
\* more events than MaxEvents.)
handleInput(s, inst) == [s EXCEPT !.debounceTimer[inst] = 1]

\* The debounce callback: () => onSearch(query)
debounceFired(s, inst) ==
    onSearch([s EXCEPT !.debounceTimer[inst] = @ - 1], inst, s.query)

\* The clear button: query = ""; onSearch("")
clearClicked(s, inst) == onSearch([s EXCEPT !.query = EmptyStr], inst, EmptyStr)

\* A key press with the search input focused: SearchInput.handleKeydown sees
\* it first (Escape calls onEscape), then the window's handleKeydown.
keyPressed(s, key, ctrlKey, shiftKey) ==
    LET s1 == IF key = "Escape" /\ InputInstance(s) # "none"
              THEN handleEscape(s) ELSE s
    IN  handleKeydown(s1, key, ctrlKey, shiftKey)

\* open_clipboard listener up to its first await
openClipboard(s) ==
    invoke([s EXCEPT !.currentMode = "clipboard", !.query = EmptyStr],
           Call("get_clipboard_history", EmptyStr, EmptyStr, "clipboard", FALSE))

\* tauri://focus listener; its 50 ms timer refocuses and may reload suggestions
windowFocused(s) ==
    [s EXCEPT !.isVisible = TRUE, !.focusTimers = @ + 1, !.windowShown = TRUE]

\* A focus timer that reloads the suggestions whatever the mode and query
focusTimerFired_always(s) == loadSuggestions([s EXCEPT !.focusTimers = @ - 1], FALSE)

focusTimerFired(s) ==
    LET s1 == [s EXCEPT !.focusTimers = @ - 1]
    IN  IF trim(s1.query) = EmptyStr /\ s1.currentMode = "launcher"
        THEN loadSuggestions(s1, FALSE)
        ELSE s1

\* A scripts-changed listener that adds the payload to what is registered
scriptsChanged_merges(s, registry) ==
    [s EXCEPT !.availableScripts = @ \o registry]

\* scripts-changed listener: availableScripts = event.payload
scriptsChanged(s, registry) == [s EXCEPT !.availableScripts = registry]

graceTimerFired(s) == [s EXCEPT !.graceTimers = @ - 1, !.actionInFlight = FALSE]

\* A hide_window handler that shows the session again when the call fails
hideSettled_reverts(s, ok) ==
    [s EXCEPT !.hideCalls = @ - 1,
              !.windowShown = IF ok THEN FALSE ELSE @,
              !.isVisible = IF ok THEN @ ELSE TRUE]

\* hide_window settles: on success the window leaves the screen; on failure
\* .catch(e => console.error(...)) logs and touches nothing
hideSettled(s, ok) ==
    [s EXCEPT !.hideCalls = @ - 1,
              !.windowShown = IF ok THEN FALSE ELSE @]

\* ----------------------------------------------------------- SettingsView
\* Values the edited field of the configuration can take
ConfigValues == {"c0", "c1", "c2"}
NoSaveTimers == [live |-> 0, orphan |-> 0]

\* {#if view === "settings" && vantaConfig} <SettingsView bind:config .../>
SettingsRendered(s) == s.view = "settings" /\ s.vantaConfig

\* A debouncedSave that starts a timer without cancelling the pending one
debouncedSave_noClear(s) == [s EXCEPT !.saveTimers.live = @ + 1]

\* debouncedSave: clearTimeout(saveTimeout) drops the pending timer of this
\* instance, setTimeout(..., 500) starts one
debouncedSave(s) == [s EXCEPT !.saveTimers.live = 1]

\* bind:value on a field of config, then oninput / onchange = debouncedSave
settingsEdited(s, value) == debouncedSave([s EXCEPT !.configValue = value])

\* The timer callback up to its await: invoke("save_config", {newConfig: config}).
\* which: the timer of the live instance or one left by a destroyed instance,
\* whose config prop still reads the page's vantaConfig
saveTimerFired(s, which) ==
    invoke(IF which = "live" THEN [s EXCEPT !.saveTimers.live = @ - 1]
           ELSE [s EXCEPT !.saveTimers.orphan = @ - 1],
           Call("save_config", EmptyStr, <<s.configValue>>, "save", FALSE))

\* The step from session s to n takes the settings branch of the template
\* away: the SettingsView instance is destroyed.  It has no onDestroy, so its
\* pending timer stays; the next instance starts with saveTimeout = null.
destroyed(s, n) ==
    IF SettingsRendered(s) /\ ~SettingsRendered(n)
    THEN [n EXCEPT !.saveTimers = [live |-> 0, orphan |-> @.orphan + @.live]]
    ELSE n

\* -------------------------------------------------------------- StatusBar
\* The download_status listener of StatusBar.svelte: the status is taken from
\* the payload, and a success or failed status starts a 3 s timer that is
\* never cancelled.
downloadStatusEvent(s, status) ==
    [s EXCEPT !.downloadStatus = status,
              !.idleTimers = IF status \in {"success", "failed"}
                             THEN Append(@, status) ELSE @]

\* setTimeout(() => { downloadStatus = "idle" }, 3000); equal delays: the
\* timer started first fires first
idleTimerFired(s) ==
    [s EXCEPT !.idleTimers = Tail(@), !.downloadStatus = "idle"]

\* ---------------------------------------------------------------- onMount
\* onMount awaits its one-shot loads and its listen calls one after the other;
\* each piece below runs when the awaited call settles and ends at the next
\* await.
listenCall(event) == Call("listen", EmptyStr, <<event>>, "listen", FALSE)

\* onMount up to its first await
mountStart(s) ==
    invoke(s, Call("get_installed_themes", EmptyStr, EmptyStr, "themes", FALSE))

\* try { availableThemes = await invoke("get_installed_themes") } catch { log }
getThemesSettled(s, ok, payload) ==
    invoke(IF ok THEN [s EXCEPT !.availableThemes = payload] ELSE s,
           Call("get_config", EmptyStr, EmptyStr, "config", FALSE))

\* try { vantaConfig = await invoke("get_config"); ... } catch { log }
getConfigSettled(s, ok) ==
    invoke(IF ok THEN [s EXCEPT !.vantaConfig = TRUE] ELSE s,
           Call("get_scripts", EmptyStr, EmptyStr, "scripts", FALSE))

\* A get_scripts load without its try / catch: a failure ends onMount
getScriptsSettled_throws(s, ok, payload) ==
    IF ok
    THEN invoke([s EXCEPT !.availableScripts = payload], listenCall(MountEvents[1]))
    ELSE s

\* try { availableScripts = await invoke("get_scripts") } catch { log }
getScriptsSettled(s, ok, payload) ==
    invoke(IF ok THEN [s EXCEPT !.availableScripts = payload] ELSE s,
           listenCall(MountEvents[1]))

\* await listen(event, handler): the listener is registered and onMount moves
\* on to the next listen call, and after the last one to loadSuggestions().
\* The listen calls are not inside a try: a rejected one ends onMount.
listenSettled(s, event, ok) ==
    LET k == CHOOSE j \in 1..Len(MountEvents) : MountEvents[j] = event
        s1 == [s EXCEPT !.listening = @ \cup {event}]
    IN  IF ~ok THEN s
        ELSE IF k < Len(MountEvents) THEN invoke(s1, listenCall(MountEvents[k + 1]))
        ELSE loadSuggestions(s1, FALSE)

\* What the backend may answer to a call
Payloads(call) ==
    IF call.cont = "search" THEN SearchReplies(call.arg)
    ELSE IF call.cont = "themes" THEN ThemeLists
    ELSE IF call.cont = "scripts" THEN Registries
    ELSE IF call.cont = "suggestions" THEN SearchReplies(EmptyStr)
    ELSE IF call.cont = "script" THEN ScriptReplies(call.kw, call.arg)
    ELSE IF call.cont = "clipboard" THEN ClipboardHistories
    ELSE {<< >>}

RemoveAt(seq, i) == SubSeq(seq, 1, i - 1) \o SubSeq(seq, i + 1, Len(seq))

\* The continuation of the i-th call in flight, run when it settles; a
\* handleActivate awaiting it (fill:) then reaches its finally block.
settled(s, i, ok, payload, elapsed) ==
    LET call == s.inflight[i]
        s1 == [s EXCEPT !.inflight = RemoveAt(@, i), !.answered = <<call>>]
        s2 == IF call.cont = "suggestions" THEN suggestionsSettled(s1, ok, payload)
              ELSE IF call.cont = "search" THEN searchSettled(s1, ok, payload, elapsed)
              ELSE IF call.cont = "script"
                   THEN scriptSettled(s1, call.kw, ok, payload, elapsed)
              ELSE IF call.cont = "clipboard" THEN clipboardSettled(s1, ok, payload)
              ELSE IF call.cont = "themes" THEN getThemesSettled(s1, ok, payload)
              ELSE IF call.cont = "config" THEN getConfigSettled(s1, ok)
              ELSE IF call.cont = "scripts" THEN getScriptsSettled(s1, ok, payload)
              ELSE IF call.cont = "listen" THEN listenSettled(s1, call.arg[1], ok)
              \* save_config: try { await invoke(...); log } catch { log }
              ELSE IF call.cont = "save" THEN s1
              ELSE activateSettled(s1, call.cont = "activate_reset", ok)
    IN  IF call.awaited THEN scheduleGrace(s2) ELSE s2

\* ----------------------------------------------------------------- actions
\* One atomic step: handler op takes the session to n
Commit(n, op) ==
    /\ query' = n.query
    /\ results' = n.results
    /\ scriptResults' = n.scriptResults
    /\ isScriptMode' = n.isScriptMode
    /\ activeScriptKeyword' = n.activeScriptKeyword
    /\ selectedIndex' = n.selectedIndex
    /\ searchTime' = n.searchTime
    /\ availableScripts' = n.availableScripts
    /\ actionInFlight' = n.actionInFlight
    /\ isVisible' = n.isVisible
    /\ currentMode' = n.currentMode
    /\ clipboardHistory' = n.clipboardHistory
    /\ view' = n.view
    /\ vantaConfig' = n.vantaConfig
    /\ availableThemes' = n.availableThemes
    /\ listening' = n.listening
    /\ configValue' = n.configValue
    /\ saveTimers' = destroyed(State, n).saveTimers
    /\ downloadStatus' = n.downloadStatus
    /\ idleTimers' = n.idleTimers
    /\ inflight' = n.inflight
    /\ debounceTimer' = n.debounceTimer
    /\ graceTimers' = n.graceTimers
    /\ focusTimers' = n.focusTimers
    /\ hideCalls' = n.hideCalls
    /\ windowShown' = n.windowShown
    /\ issued' = n.issued
    /\ answered' = n.answered
    /\ lastOp' = op
    /\ prev' = [currentMode |-> currentMode, query |-> query, view |-> view]
    /\ burst' = IF op # "Input" THEN burst
                ELSE IF debounceTimer[InputInstance(State)] > 0 THEN burst + 1
                ELSE 1

\* A response or a timer: caused by an earlier event
Internal(n, op) == Commit(n, op) /\ events' = events

\* A step taken by the user or by a backend push event: it uses up one event
\* of the session's budget.
External(n, op) == events < MaxEvents /\ Commit(n, op) /\ events' = events + 1

\* The user edits the text of the rendered input (bind:value, then oninput)
Input ==
    /\ windowShown
    /\ InputInstance(State) # "none"
    /\ \E q \in Queries \ {query} :
          External(handleInput([State EXCEPT !.query = q], InputInstance(State)),
                 "Input")

DebounceFire ==
    \E inst \in {"launcher", "clipboard"} :
        /\ debounceTimer[inst] > 0
        /\ Internal(debounceFired(State, inst),
                    IF inst = "launcher" THEN "DebounceFire" ELSE "ClipDebounceFire")

ClearButton ==
    /\ windowShown
    /\ InputInstance(State) # "none"
    /\ Len(query) > 0
    /\ External(clearClicked(State, InputInstance(State)), "ClearButton")

KeyPress ==
    /\ windowShown
    /\ \E key \in Keys, ctrlKey \in BOOLEAN, shiftKey \in BOOLEAN :
          /\ ctrlKey => key = ","
          /\ shiftKey => key = "Tab"
          /\ External(keyPressed(State, key, ctrlKey, shiftKey),
                    IF key = "," /\ ~ctrlKey THEN "x" ELSE key)

\* onmouseenter of a rendered item: onSelect(index)
Hover ==
    /\ windowShown
    /\ RenderedList(State) # "none"
    /\ \E i \in 0..((IF RenderedList(State) = "script" THEN Len(scriptResults)
                       ELSE Len(results)) - 1) :
          External([State EXCEPT !.selectedIndex = i], "Hover")

\* onclick of a rendered item: onActivate(item)
Click ==
    /\ windowShown
    /\ \/ /\ RenderedList(State) = "script"
          /\ \E i \in 1..Len(scriptResults) :
                External(handleScriptActivate(State, scriptResults[i]), "Click")
       \/ /\ RenderedList(State) = "results"
          /\ \E i \in 1..Len(results) :
                External(handleActivate(State, results[i]), "Click")

Settle ==
    \E i \in 1..Len(inflight), ok \in BOOLEAN :
        \E payload \in (IF ok THEN Payloads(inflight[i]) ELSE {<< >>}),
           elapsed \in (IF ok /\ inflight[i].cont \in {"search", "script"}
                        THEN Latencies ELSE {1}) :
            Internal(settled(State, i, ok, payload, elapsed),
                   IF ok THEN "SettleOk" ELSE "SettleFail")

\* hide_window settles
HideSettle ==
    /\ hideCalls > 0
    /\ \E ok \in BOOLEAN :
          Internal(hideSettled(State, ok),
                   IF ok THEN "HideSettle" ELSE "HideSettleFail")

GraceTimerFire ==
    /\ graceTimers > 0
    /\ Internal(graceTimerFired(State), "GraceTimerFire")

FocusTimerFire ==
    /\ focusTimers > 0
    /\ Internal(focusTimerFired(State), "FocusTimerFire")

\* Push events: each reaches the session once its listener is registered
OpenClipboard ==
    /\ "open_clipboard" \in listening
    /\ External(openClipboard(State), "OpenClipboard")

WindowFocus ==
    /\ "tauri://focus" \in listening
    /\ External(windowFocused(State), "WindowFocus")

ScriptsChanged ==
    /\ "scripts-changed" \in listening
    /\ \E registry \in Registries \ {availableScripts} :
          External(scriptsChanged(State, registry), "ScriptsChanged")

ConfigUpdated ==
    /\ "config-updated" \in listening
    /\ ~vantaConfig
    /\ External([State EXCEPT !.vantaConfig = TRUE], "ConfigUpdated")

\* The user changes a field of the settings panel
SettingsEdit ==
    /\ windowShown
    /\ SettingsRendered(State)
    /\ events < MaxEdits
    /\ \E value \in ConfigValues \ {configValue} :
          /\ Commit(settingsEdited(State, value), "SettingsEdit")
          /\ events' = events + 1

SaveTimerFire ==
    \E which \in {"live", "orphan"} :
        /\ saveTimers[which] > 0
        /\ Internal(saveTimerFired(State, which),
                    IF which = "live" THEN "SaveTimerFire" ELSE "OrphanSaveTimerFire")

\* The backend reports the progress of a download
DownloadStatus ==
    /\ events < MaxDownloads
    /\ \E status \in {"downloading", "success", "failed"} :
          /\ Commit(downloadStatusEvent(State, status), "DownloadStatus")
          /\ events' = events + 1

IdleTimerFire ==
    /\ idleTimers # << >>
    /\ Internal(idleTimerFired(State), "IdleTimerFire")

\* After onMount: the one-shot loads have settled (each may have failed, which
\* leaves its default) and the initial loadSuggestions() call is in flight.
Init ==
    /\ query = EmptyStr
    /\ results = << >>
    /\ scriptResults = << >>
    /\ isScriptMode = FALSE
    /\ activeScriptKeyword = EmptyStr
    /\ selectedIndex = 0
    /\ searchTime = Null
    /\ availableScripts \in Registries
    /\ actionInFlight = FALSE
    /\ isVisible = TRUE
    /\ currentMode = "launcher"
    /\ clipboardHistory = << >>
    /\ view = "launcher"
    /\ vantaConfig \in BOOLEAN
    /\ availableThemes = <<ThemeMeta("default")>>
    /\ listening = AllEvents
    /\ configValue = "c0"
    /\ saveTimers = NoSaveTimers
    /\ downloadStatus = "idle"
    /\ idleTimers = << >>
    /\ inflight = <<Call("get_suggestions", EmptyStr, EmptyStr, "suggestions", FALSE)>>
    /\ debounceTimer = [inst \in {"launcher", "clipboard"} |-> 0]
    /\ graceTimers = 0
    /\ focusTimers = 0
    /\ hideCalls = 0
    /\ windowShown = TRUE
    /\ issued = << >>
    /\ answered = << >>
    /\ lastOp = "mount"
    /\ prev = [currentMode |-> "launcher", query |-> EmptyStr, view |-> "launcher"]
    /\ burst = 0
    /\ events = 0

Next ==
    \/ Input
    \/ DebounceFire
    \/ ClearButton
    \/ KeyPress
    \/ Hover
    \/ Click
    \/ Settle
    \/ HideSettle
    \/ GraceTimerFire
    \/ FocusTimerFire
    \/ OpenClipboard
    \/ WindowFocus
    \/ ScriptsChanged
    \/ ConfigUpdated

Spec == Init /\ [][Next]_vars

\* The event loop runs every timer callback that is due: a pending grace timer
\* eventually fires.  Nothing obliges the backend to answer or the user to act.
SpecRelease == Spec /\ WF_vars(GraceTimerFire)

\* ------------------------------------------------ resolver specification
\* The launcher with any short string typed into its input and any registry
\* loaded, the debounce timer pending: the timer fires, handleSearch resolves
\* the query and dispatches, and the response arrives.
ResolverAlphabet == {"h", "H", "a", SP, TAB}
ResolverQueries == UNION {[1..n -> ResolverAlphabet] : n \in 0..MaxLen}
ResolverRegistries ==
    {<< >>, <<ScriptEntry(<<"h">>)>>, <<ScriptEntry(<<"H", "a">>)>>,
     <<ScriptEntry(<<"H", "a">>), ScriptEntry(<<"h">>)>>}

InitResolver ==
    /\ query \in ResolverQueries
    /\ results = << >>
    /\ scriptResults = << >>
    /\ isScriptMode = FALSE
    /\ activeScriptKeyword = EmptyStr
    /\ selectedIndex = 0
    /\ searchTime = Null
    /\ availableScripts \in ResolverRegistries
    /\ actionInFlight = FALSE
    /\ isVisible = TRUE
    /\ currentMode = "launcher"
    /\ clipboardHistory = << >>
    /\ view = "launcher"
    /\ vantaConfig = TRUE
    /\ availableThemes = <<ThemeMeta("default")>>
    /\ listening = AllEvents
    /\ configValue = "c0"
    /\ saveTimers = NoSaveTimers
    /\ downloadStatus = "idle"
    /\ idleTimers = << >>
    /\ inflight = << >>
    /\ debounceTimer = [inst \in {"launcher", "clipboard"} |->
                          IF inst = "launcher" THEN 1 ELSE 0]
    /\ graceTimers = 0
    /\ focusTimers = 0
    /\ hideCalls = 0
    /\ windowShown = TRUE
    /\ issued = << >>
    /\ answered = << >>
    /\ lastOp = "Input"
    /\ prev = [currentMode |-> "launcher", query |-> EmptyStr, view |-> "launcher"]
    /\ burst = 1
    /\ events = 1

NextResolver ==
    \/ DebounceFire
    \/ Settle

SpecResolver == InitResolver /\ [][NextResolver]_vars

\* --------------------------------------------------- mount specification
\* The component as constructed, onMount having run up to its first await:
\* every snapshot holds its default and no listener is registered.  The loads
\* and the listen calls settle one by one while the user already types; the
\* push events whose listener is registered arrive.
InitMount ==
    /\ query = EmptyStr
    /\ results = << >>
    /\ scriptResults = << >>
    /\ isScriptMode = FALSE
    /\ activeScriptKeyword = EmptyStr
    /\ selectedIndex = 0
    /\ searchTime = Null
    /\ availableScripts = << >>
    /\ actionInFlight = FALSE
    /\ isVisible = TRUE
    /\ currentMode = "launcher"
    /\ clipboardHistory = << >>
    /\ view = "launcher"
    /\ vantaConfig = FALSE
    /\ availableThemes = << >>
    /\ listening = {}
    /\ configValue = "c0"
    /\ saveTimers = NoSaveTimers
    /\ downloadStatus = "idle"
    /\ idleTimers = << >>
    /\ inflight = <<Call("get_installed_themes", EmptyStr, EmptyStr, "themes", FALSE)>>
    /\ debounceTimer = [inst \in {"launcher", "clipboard"} |-> 0]
    /\ graceTimers = 0
    /\ focusTimers = 0
    /\ hideCalls = 0
    /\ windowShown = TRUE
    /\ issued = <<[cmd |-> "get_installed_themes", kw |-> EmptyStr, arg |-> EmptyStr]>>
    /\ answered = << >>
    /\ lastOp = "mount"
    /\ prev = [currentMode |-> "launcher", query |-> EmptyStr, view |-> "launcher"]
    /\ burst = 0
    /\ events = 0

\* The user types while onMount is still loading: a plain query or one naming
\* the script keyword "h"
MountQueries == {<<"a">>, <<"h", SP, "a">>}

MountInput ==
    /\ windowShown
    /\ InputInstance(State) # "none"
    /\ \E q \in MountQueries \ {query} :
          External(handleInput([State EXCEPT !.query = q], InputInstance(State)),
                 "Input")

NextMount ==
    \/ Settle
    \/ MountInput
    \/ DebounceFire
    \/ ScriptsChanged
    \/ ConfigUpdated

SpecMount == InitMount /\ [][NextMount]_vars

\* -------------------------------------------------- script specification
\* The launcher in Script mode: the scripts "h" and "a" are registered, the
\* query "h a" has been dispatched and answered.  The user types queries that
\* name a script, with other arguments or another keyword, presses keys and
\* clicks items while the requests settle in any order.
ScriptRegistry == <<ScriptEntry(<<"h">>), ScriptEntry(<<"a">>)>>
ScriptQueries == {<<"h", SP, "a">>, <<"h", SP, "b">>, <<"a">>}

InitScript ==
    /\ query = <<"h", SP, "a">>
    /\ results = << >>
    /\ scriptResults \in ScriptReplies(<<"h">>, <<"a">>)
    /\ isScriptMode = TRUE
    /\ activeScriptKeyword = <<"h">>
    /\ selectedIndex = 0
    /\ searchTime = <<1>>
    /\ availableScripts = ScriptRegistry
    /\ actionInFlight = FALSE
    /\ isVisible = TRUE
    /\ currentMode = "launcher"
    /\ clipboardHistory = << >>
    /\ view = "launcher"
    /\ vantaConfig = TRUE
    /\ availableThemes = <<ThemeMeta("default")>>
    /\ listening = AllEvents
    /\ configValue = "c0"
    /\ saveTimers = NoSaveTimers
    /\ downloadStatus = "idle"
    /\ idleTimers = << >>
    /\ inflight = << >>
    /\ debounceTimer = [inst \in {"launcher", "clipboard"} |-> 0]
    /\ graceTimers = 0
    /\ focusTimers = 0
    /\ hideCalls = 0
    /\ windowShown = TRUE
    /\ issued = << >>
    /\ answered = <<Call("execute_script", <<"h">>, <<"a">>, "script", FALSE)>>
    /\ lastOp = "SettleOk"
    /\ prev = [currentMode |-> "launcher", query |-> query, view |-> view]
    /\ burst = 0
    /\ events = 0

ScriptInput ==
    /\ windowShown
    /\ InputInstance(State) # "none"
    /\ \E q \in ScriptQueries \ {query} :
          External(handleInput([State EXCEPT !.query = q], InputInstance(State)),
                 "Input")

NextScript ==
    \/ ScriptInput
    \/ DebounceFire
    \/ Settle
    \/ KeyPress
    \/ Click

SpecScript == InitScript /\ [][NextScript]_vars

\* ------------------------------------------------ settings specification
\* The settings panel open on a loaded configuration, the launcher behind it
\* idle: the user edits fields, closes and reopens the panel and presses
\* keys; the save timers fire and the backend answers.
InitSettings ==
    /\ query = EmptyStr
    /\ results = << >>
    /\ scriptResults = << >>
    /\ isScriptMode = FALSE
    /\ activeScriptKeyword = EmptyStr
    /\ selectedIndex = 0
    /\ searchTime = Null
    /\ availableScripts = << >>
    /\ actionInFlight = FALSE
    /\ isVisible = TRUE
    /\ currentMode = "launcher"
    /\ clipboardHistory = << >>
    /\ view = "settings"
    /\ vantaConfig = TRUE
    /\ availableThemes = <<ThemeMeta("default")>>
    /\ listening = AllEvents
    /\ configValue = "c0"
    /\ saveTimers = NoSaveTimers
    /\ downloadStatus = "idle"
    /\ idleTimers = << >>
    /\ inflight = << >>
    /\ debounceTimer = [inst \in {"launcher", "clipboard"} |-> 0]
    /\ graceTimers = 0
    /\ focusTimers = 0
    /\ hideCalls = 0
    /\ windowShown = TRUE
    /\ issued = << >>
    /\ answered = << >>
    /\ lastOp = ","
    /\ prev = [currentMode |-> "launcher", query |-> EmptyStr, view |-> "launcher"]
    /\ burst = 0
    /\ events = 0

NextSettings ==
    \/ SettingsEdit
    \/ SaveTimerFire
    \/ KeyPress
    \/ Settle

SpecSettings == InitSettings /\ [][NextSettings]_vars

\* ---------------------------------------------- status bar specification
\* The StatusBar of a launcher that stays on screen: download_status events
\* arrive and the idle timers fire.  StatusBar keeps its own state, which no
\* handler of the page reads or writes.
InitStatus ==
    /\ query = EmptyStr
    /\ results = << >>
    /\ scriptResults = << >>
    /\ isScriptMode = FALSE
    /\ activeScriptKeyword = EmptyStr
    /\ selectedIndex = 0
    /\ searchTime = Null
    /\ availableScripts = << >>
    /\ actionInFlight = FALSE
    /\ isVisible = TRUE
    /\ currentMode = "launcher"
    /\ clipboardHistory = << >>
    /\ view = "launcher"
    /\ vantaConfig = TRUE
    /\ availableThemes = <<ThemeMeta("default")>>
    /\ listening = AllEvents
    /\ configValue = "c0"
    /\ saveTimers = NoSaveTimers
    /\ downloadStatus = "idle"
    /\ idleTimers = << >>
    /\ inflight = << >>
    /\ debounceTimer = [inst \in {"launcher", "clipboard"} |-> 0]
    /\ graceTimers = 0
    /\ focusTimers = 0
    /\ hideCalls = 0
    /\ windowShown = TRUE
    /\ issued = << >>
    /\ answered = << >>
    /\ lastOp = "mount"
    /\ prev = [currentMode |-> "launcher", query |-> EmptyStr, view |-> "launcher"]
    /\ burst = 0
    /\ events = 0

NextStatus ==
    \/ DownloadStatus
    \/ IdleTimerFire

SpecStatus == InitStatus /\ [][NextStatus]_vars

\* The event loop runs every timer callback that is due
SpecStatusFair == SpecStatus /\ WF_vars(IdleTimerFire)

\* ---------------------------------------------- navigation specification
\* The launcher showing a list of up to MaxNav items with any item selected:
\* the suggestions, the results for "a" (fill: and install: items) or, in
\* Script mode, the items of the script "h"; no call in flight, no timer
\* pending.  Keys are pressed and items hovered.
NavLists(q) == {[i \in 1..n |-> BackendItem(q, i)] : n \in 0..MaxNav}
NavScriptLists ==
    {[i \in 1..n |->
         ScriptItem(<<"h">>, EmptyStr, i + off, ScriptActionAt(i + off), "normal", "")] :
        n \in 0..MaxNav, off \in {0, 2}}

InitNav ==
    /\ isScriptMode \in BOOLEAN
    /\ IF isScriptMode
       THEN /\ query = <<"h">>
            /\ results = << >>
            /\ scriptResults \in NavScriptLists
            /\ activeScriptKeyword = <<"h">>
       ELSE /\ query \in {EmptyStr, <<"a">>}
            /\ results \in NavLists(query)
            /\ scriptResults = << >>
            /\ activeScriptKeyword = EmptyStr
    /\ selectedIndex \in 0..(MaxNav - 1)
    /\ \/ selectedIndex < (IF isScriptMode THEN Len(scriptResults) ELSE Len(results))
       \/ selectedIndex = 0
    /\ searchTime = IF query = EmptyStr THEN Null ELSE <<1>>
    /\ availableScripts = <<ScriptEntry(<<"h">>)>>
    /\ actionInFlight = FALSE
    /\ isVisible = TRUE
    /\ currentMode = "launcher"
    /\ clipboardHistory = << >>
    /\ view \in {"launcher", "settings"}
    /\ vantaConfig = TRUE
    /\ availableThemes = <<ThemeMeta("default")>>
    /\ listening = AllEvents
    /\ configValue = "c0"
    /\ saveTimers = NoSaveTimers
    /\ downloadStatus = "idle"
    /\ idleTimers = << >>
    /\ inflight = << >>
    /\ debounceTimer = [inst \in {"launcher", "clipboard"} |-> 0]
    /\ graceTimers = 0
    /\ focusTimers = 0
    /\ hideCalls = 0
    /\ windowShown = TRUE
    /\ issued = << >>
    /\ answered = << >>
    /\ lastOp = "SettleOk"
    /\ prev = [currentMode |-> "launcher", query |-> query, view |-> view]
    /\ burst = 0
    /\ events = 0

NextNav ==
    \/ KeyPress
    \/ Hover

SpecNav == InitNav /\ [][NextNav]_vars

\* ===================================================================
\* Properties
\* ===================================================================
IsSettle(op) == op \in {"SettleOk", "SettleFail"}

\* The step is the settlement of the i-th call in flight
SettlesCall(i) ==
    /\ i \in 1..Len(inflight)
    /\ IsSettle(lastOp')
    /\ \E rest \in {RemoveAt(inflight, i)} :
          SubSeq(inflight', 1, Len(rest)) = rest /\ Len(inflight') >= Len(rest)

\* The launcher list shows a (non-empty) response to search(q)
ShowsSearchFor(list, q) ==
    /\ list # << >>
    /\ \A k \in 1..Len(list) : list[k].title = q /\ list[k].source # "Clipboard"

\* The request token (mode, query) of the session and of a call in flight
Token(mode, keyword, text) == [mode |-> mode, keyword |-> keyword, text |-> text]

CurrentToken ==
    LET m == detectScriptQuery(query, availableScripts)
    IN  IF currentMode = "clipboard" THEN Token("Clipboard", EmptyStr, query)
        ELSE IF trim(query) = EmptyStr THEN Token("Launcher", EmptyStr, EmptyStr)
        ELSE IF m.matched THEN Token("Script", m.keyword, m.args)
        ELSE Token("Launcher", EmptyStr, query)

CallToken(call) ==
    IF call.cmd = "search" THEN Token("Launcher", EmptyStr, call.arg)
    ELSE IF call.cmd = "execute_script" THEN Token("Script", call.kw, call.arg)
    ELSE Token("Launcher", EmptyStr, EmptyStr)

IsRequest(call) == call.cmd \in {"search", "execute_script", "get_suggestions"}

\* ------------------------------------------------------------------ C1
\* C1: out-of-order discard.  While the launcher shows the response to
\* search(query) for the current query, the late response to a search issued
\* earlier for a different query does not replace the displayed list.
C1_OutOfOrderDiscard ==
    [][\A i \in 1..Len(inflight) :
          ( /\ SettlesCall(i)
            /\ lastOp' = "SettleOk"
            /\ inflight[i].cmd = "search"
            /\ inflight[i].arg # query
            /\ trim(query) # EmptyStr
            /\ CurrentToken = Token("Launcher", EmptyStr, query)
            /\ ~isScriptMode
            /\ ShowsSearchFor(results, query) )
          => ShowsSearchFor(results', query)]_vars

\* ------------------------------------------------------------------ C2
ActivationCalls ==
    {i \in 1..Len(inflight) : inflight[i].cont \in {"activate_reset", "activate_stay"}}

\* C2: re-entrancy guard.  At no reachable state are two activation backend
\* calls outstanding at the same time (so two Enter presses on one item before
\* the first call settles yield one launch_app call).
C2_SingleActivationInFlight == Cardinality(ActivationCalls) <= 1

\* ------------------------------------------------------------------ C3
\* C3: stale-response discard.  A response to search, execute_script or
\* get_suggestions whose request token differs from the session's current
\* (mode, query) when it arrives changes neither the item lists, nor the
\* selection, nor the latency.
C3_StaleResponseDiscarded ==
    [][\A i \in 1..Len(inflight) :
          ( /\ SettlesCall(i)
            /\ IsRequest(inflight[i])
            /\ CallToken(inflight[i]) # CurrentToken )
          => UNCHANGED <<results, scriptResults, selectedIndex, searchTime>>]_vars

\* ------------------------------------------------------------------ C4
Req(cmd, kw, arg) == [cmd |-> cmd, kw |-> kw, arg |-> arg]

\* The one backend request that belongs to query q outside Clipboard mode
RequestFor(q, registry) ==
    LET m == detectScriptQuery(q, registry)
    IN  IF trim(q) = EmptyStr THEN Req("get_suggestions", EmptyStr, EmptyStr)
        ELSE IF m.matched THEN Req("execute_script", m.keyword, m.args)
        ELSE Req("search", EmptyStr, q)

IsDebounceFire(op) == op \in {"DebounceFire", "ClipDebounceFire"}

C5_SelectionInRange ==
    IF totalItems(State) > 0
    THEN 0 <= selectedIndex /\ selectedIndex < totalItems(State)
    ELSE selectedIndex = 0

\* ------------------------------------------------------------------ C6
\* C6: mode exclusivity.  The Script-mode flag and Clipboard mode are never
\* both set.
C6_ModeExclusive == ~(isScriptMode /\ currentMode = "clipboard")

\* ------------------------------------------------------------------ C8
\* C8 as claimed: every debounce firing for a non-empty query issues exactly
\* one request, execute_script(K, args) if the query resolves to Script and
\* search(query) if it resolves to Launcher.
C8_Original ==
    (IsDebounceFire(lastOp) /\ query # EmptyStr) =>
        LET m == detectScriptQuery(query, availableScripts)
        IN  issued = <<IF m.matched THEN Req("execute_script", m.keyword, m.args)
                       ELSE Req("search", EmptyStr, query)>>

\* C8 (amended): dispatch by resolved mode.  When the launcher input's debounce
\* timer fires outside Clipboard mode for a query that is non-empty after
\* trimming, exactly one backend request is issued: execute_script(K, args)
\* and no search if the query resolves to Script{K, args}, search(query) and no
\* execute_script if it resolves to Launcher.
C8_DispatchByMode ==
    (lastOp = "DebounceFire" /\ prev.currentMode # "clipboard"
        /\ trim(query) # EmptyStr) =>
        LET m == detectScriptQuery(query, availableScripts)
        IN  /\ Len(issued) = 1
            /\ m.matched =>
                  issued[1] = Req("execute_script", m.keyword, m.args)
            /\ ~m.matched => issued[1] = Req("search", EmptyStr, query)

\* "h a" with "h" registered was dispatched as execute_script("h", "a")
C8_Witness ==
    /\ lastOp = "DebounceFire"
    /\ query = <<"h", SP, "a">>
    /\ issued = <<Req("execute_script", <<"h">>, <<"a">>)>>

\* ------------------------------------------------------------------ C9
\* SessionState of the spec: {mode, query, items, selection, latency,
\* actionInFlight, visible}
Session(s) ==
    [currentMode |-> s.currentMode, isScriptMode |-> s.isScriptMode,
     activeScriptKeyword |-> s.activeScriptKeyword, query |-> s.query,
     results |-> s.results, scriptResults |-> s.scriptResults,
     selectedIndex |-> s.selectedIndex, searchTime |-> s.searchTime,
     actionInFlight |-> s.actionInFlight, isVisible |-> s.isVisible]

ResetTerminal(s) ==
    /\ s.query = EmptyStr
    /\ s.currentMode = "launcher" /\ ~s.isScriptMode
    /\ s.activeScriptKeyword = EmptyStr
    /\ s.selectedIndex = 0
    /\ s.searchTime = Null
    /\ ~s.isVisible

\* C9 as claimed: resetAndHide is idempotent and clears the mode-specific item
\* lists: the script list, and the Clipboard mode's list when called there.
C9_Original ==
    LET once == resetAndHide(State)
        twice == resetAndHide([once EXCEPT !.issued = << >>])
    IN  /\ Session(twice) = Session(once)
        /\ ResetTerminal(once)
        /\ once.scriptResults = << >>
        /\ currentMode = "clipboard" => once.results = << >>

\* C9 (amended): resetAndHide is idempotent on the session state: after one
\* call, and equally after two, the query is empty, the script list is
\* cleared, the mode is Launcher, selection is 0, latency is cleared and the
\* window is marked hidden; the results list (also the Clipboard mode's) is
\* kept as it was until the reloaded suggestions arrive.
C9_ResetAndHideIdempotent ==
    LET once == resetAndHide(State)
        twice == resetAndHide([once EXCEPT !.issued = << >>])
    IN  /\ Session(twice) = Session(once)
        /\ ResetTerminal(once)
        /\ once.scriptResults = << >>
        /\ once.results = results

\* resetAndHide has run from Clipboard mode and the clipboard entries are
\* still listed
C9_Witness ==
    /\ lastOp = "Escape"
    /\ prev.currentMode = "clipboard"
    /\ ResetTerminal(State)
    /\ results # << >>
    /\ \A k \in 1..Len(results) : results[k].source = "Clipboard"

EqualIgnoringCase(a, b) ==
    /\ Len(a) = Len(b)
    /\ \A k \in 1..Len(a) : LowerChar(a[k]) = LowerChar(b[k])

\* t split at the first of its characters that lies in seps
SplitAtFirst(t, seps) ==
    LET at == {k \in 1..Len(t) : t[k] \in seps}
    IN  IF at = {} THEN [keyword |-> t, rest |-> EmptyStr]
        ELSE LET k == CHOOSE x \in at : \A y \in at : x <= y
             IN  [keyword |-> SubSeq(t, 1, k - 1), rest |-> SubSeq(t, k + 1, Len(t))]

\* The mode the resolver is to yield for q when the token ends at the first
\* character of seps: Script{K, args} for the registered K equal to the token
\* ignoring case, else Launcher.
ResolvedMode(q, registry, seps) ==
    LET parts == SplitAtFirst(trim(q), seps)
        matching == {k \in 1..Len(registry) :
                        EqualIgnoringCase(registry[k].keyword, parts.keyword)}
    IN  IF trim(q) = EmptyStr \/ matching = {}
        THEN [mode |-> "Launcher", keyword |-> EmptyStr, args |-> EmptyStr]
        ELSE [mode |-> "Script",
              keyword |-> registry[CHOOSE k \in matching : TRUE].keyword,
              args |-> trim(parts.rest)]

\* What handleSearch shows of the resolution: the Script-mode flag, the active
\* keyword and the request it sends
ResolvedAs(r) ==
    IF r.mode = "Script"
    THEN /\ isScriptMode
         /\ activeScriptKeyword = r.keyword
         /\ issued = <<Req("execute_script", r.keyword, r.args)>>
    ELSE /\ ~isScriptMode
         /\ activeScriptKeyword = EmptyStr
         /\ Len(issued) = 1
         /\ issued[1].cmd \in {"search", "get_suggestions"}

\* C7 as claimed: the trimmed query is split at its first whitespace character.
C7_Original ==
    lastOp = "DebounceFire" =>
        ResolvedAs(ResolvedMode(query, availableScripts, {SP, TAB}))

\* C7 (amended): ModeResolver.  The trimmed query is split at its first space
\* character (U+0020; a tab or other whitespace inside the query does not end
\* the keyword) into keyword and remainder; if the keyword equals a registered
\* keyword K ignoring case the result is Script{K, remainder trimmed}, else
\* Launcher.  Matching is exact-token only.
C7_ModeResolver ==
    lastOp = "DebounceFire" =>
        ResolvedAs(ResolvedMode(query, availableScripts, {SP}))

\* "Ha  a" typed with "h" registered (a token that has a keyword as a proper
\* prefix) was resolved to Launcher and searched
C7_Witness ==
    /\ lastOp = "DebounceFire"
    /\ query = <<"H", "a", SP, SP, "a">>
    /\ availableScripts = <<ScriptEntry(<<"h">>)>>
    /\ ~isScriptMode
    /\ issued = <<Req("search", EmptyStr, query)>>

\* ------------------------------------------------------------------ C11
\* The session after n presses of key (no modifier) with the input focused
RECURSIVE Presses(_, _, _)
Presses(s, key, n) ==
    IF n = 0 THEN s ELSE Presses(keyPressed(s, key, FALSE, FALSE), key, n - 1)

C12_ActionInFlightCovers == ActivationCalls # {} => actionInFlight

\* ------------------------------------------------------------------ C13
\* Calls whose settlement an activation handler is waiting for
AwaitedByActivation ==
    {i \in 1..Len(inflight) :
        inflight[i].cont \in {"activate_reset", "activate_stay"} \/ inflight[i].awaited}

IsActivationCall(call) ==
    call.cont \in {"activate_reset", "activate_stay"} \/ call.awaited

\* C13: actionInFlight is always released.  The settlement of an activation's
\* call, successful or failed, does not change actionInFlight at that instant
\* but starts a grace timer; and whenever actionInFlight is set while no
\* activation is waiting for a call, it eventually becomes false.
C13_ActionInFlightReleased ==
    /\ [][\A i \in 1..Len(inflight) :
             (SettlesCall(i) /\ IsActivationCall(inflight[i])) =>
                 /\ actionInFlight' = actionInFlight
                 /\ graceTimers' = graceTimers + 1]_vars
    /\ (actionInFlight /\ AwaitedByActivation = {}) ~> ~actionInFlight

\* A failed activation call has settled, the flag is still set and its grace
\* timer is pending
C13_Witness ==
    /\ lastOp = "SettleFail"
    /\ answered # << >> /\ IsActivationCall(answered[1])
    /\ actionInFlight
    /\ AwaitedByActivation = {}
    /\ graceTimers = 1

\* ------------------------------------------------------------------ C14
\* C14: launcher search failure keeps the list.  When a search call fails while
\* the session is in Launcher mode with the query it was issued for, the
\* displayed result list is left untouched and the latency is cleared.
C14_SearchFailureKeepsList ==
    [][\A i \in 1..Len(inflight) :
          ( /\ SettlesCall(i)
            /\ lastOp' = "SettleFail"
            /\ inflight[i].cmd = "search"
            /\ CurrentToken = CallToken(inflight[i])
            /\ ~isScriptMode )
          => (results' = results /\ searchTime' = Null)]_vars

\* ------------------------------------------------------------------ C15
\* The failing call is the execute_script of the session's Script mode
FailsInScriptMode(call) ==
    /\ call.cmd = "execute_script"
    /\ currentMode = "launcher"
    /\ isScriptMode
    /\ activeScriptKeyword = call.kw

\* C15: script failure surface.  A failing execute_script call in Script mode
\* replaces the script list by exactly one synthetic item of urgency critical
\* carrying the error, clears the latency and leaves the session in Script
\* mode for that keyword; no other failing call changes the displayed list.
C15_ScriptFailureSurface ==
    [][\A i \in 1..Len(inflight) :
          (SettlesCall(i) /\ lastOp' = "SettleFail") =>
              IF FailsInScriptMode(inflight[i])
              THEN /\ scriptResults' = <<ScriptErrorItem(inflight[i].kw)>>
                   /\ scriptResults'[1].urgency = "critical"
                   /\ searchTime' = Null
                   /\ isScriptMode' /\ activeScriptKeyword' = inflight[i].kw
                   /\ currentMode' = "launcher"
              ELSE /\ RenderedList(State) = "script" => scriptResults' = scriptResults
                   /\ RenderedList(State) = "results" => results' = results]_vars

\* The part of C15 about the failing execute_script alone
ScriptFailureAlone ==
    [][\A i \in 1..Len(inflight) :
          (SettlesCall(i) /\ lastOp' = "SettleFail" /\ FailsInScriptMode(inflight[i])) =>
              /\ scriptResults' = <<ScriptErrorItem(inflight[i].kw)>>
              /\ searchTime' = Null
              /\ isScriptMode' /\ activeScriptKeyword' = inflight[i].kw]_vars

\* ------------------------------------------------------------------ C16
ActivationCmds == {"launch_app", "open_path", "open_url", "clipboard_write"}

\* C16: activation failure leaves the session unchanged.  When an activation's
\* backend call (launch_app, open_path, open_url or clipboard write) fails,
\* the step that handles the failure changes neither the query, the mode, the
\* item lists, the selection nor the visibility; it requests no hide and
\* performs no reset, so the same item can be activated again.
C16_ActivationFailureUnchanged ==
    [][\A i \in 1..Len(inflight) :
          ( /\ SettlesCall(i)
            /\ lastOp' = "SettleFail"
            /\ inflight[i].cmd \in ActivationCmds )
          => /\ UNCHANGED <<query, currentMode, isScriptMode, activeScriptKeyword,
                            results, scriptResults, selectedIndex, isVisible,
                            view, hideCalls, windowShown>>
             /\ issued' = << >>
             /\ Presses(State, "Enter", 1)'.issued = Presses(State, "Enter", 1).issued]_vars

\* An open_path call has failed and the listed file is still there to retry
C16_Witness ==
    /\ lastOp = "SettleFail"
    /\ answered # << >> /\ answered[1].cmd = "open_path"
    /\ isVisible /\ windowShown /\ hideCalls = 0
    /\ HasItem(results, selectedIndex)
    /\ At(results, selectedIndex).source = "File"

\* ------------------------------------------------------------------ C17
\* The step runs resetAndHide: it issues a hide_window call
RunsResetAndHide == hideCalls' = hideCalls + 1

\* C17 as claimed: the reset is applied in the step that issues hide_window,
\* with the item lists cleared, and a failing hide_window call changes nothing.
C17_Original ==
    [][/\ RunsResetAndHide =>
              /\ ResetTerminal(State)'
              /\ scriptResults' = << >> /\ results' = << >>
       /\ lastOp' = "HideSettleFail" =>
              UNCHANGED <<query, currentMode, isScriptMode, activeScriptKeyword,
                          results, scriptResults, selectedIndex, searchTime,
                          isVisible>>]_vars

\* C17 (amended): hide failure does not undo the reset.  resetAndHide applies
\* the local reset (query empty, script list cleared, mode Launcher, selection
\* 0, latency cleared, visible = false; the results list is kept) in the very
\* step that issues hide_window, without waiting for its acknowledgement; and
\* when that call fails, the step handling the failure changes nothing of the
\* session.
C17_HideFailureKeepsReset ==
    [][/\ RunsResetAndHide =>
              /\ ResetTerminal(State)'
              /\ scriptResults' = << >> /\ results' = results
       /\ lastOp' = "HideSettleFail" =>
              /\ UNCHANGED <<query, currentMode, isScriptMode, activeScriptKeyword,
                             results, scriptResults, selectedIndex, searchTime,
                             isVisible, actionInFlight, view, inflight, windowShown>>
              /\ hideCalls' = hideCalls - 1]_vars

\* hide_window has failed right after a reset: the session is still reset and
\* the window is still on screen
C17_Witness ==
    /\ lastOp = "HideSettleFail"
    /\ ResetTerminal(State)
    /\ scriptResults = << >>
    /\ results # << >>
    /\ windowShown

\* ------------------------------------------------------------------ C18
HasPrefix(str, prefix) ==
    Len(str) >= Len(prefix) /\ SubSeq(str, 1, Len(prefix)) = prefix

\* launch_app carrying an install:<arg> exec string
IsInstallCall(call) == call.cmd = "launch_app" /\ HasPrefix(call.arg, InstallPrefix)

\* The activation calls whose success closes the session: the clipboard write
\* of copy: and of a script's copy action, open_url, open_path and launch_app
\* (other than install:)
ClosesOnSuccess(call) == call.cmd \in ActivationCmds /\ ~IsInstallCall(call)

\* C18: successful activation closes the session.  When the backend call of a
\* copy: activation, of a script copy / open / run action or of a default
\* launch / open activation succeeds, that step performs reset-and-hide
\* (hide_window requested, window marked hidden, query empty, mode Launcher,
\* selection 0); the step that issues the call performs none.
C18_SuccessClosesSession ==
    [][/\ \A i \in 1..Len(inflight) :
             ( /\ SettlesCall(i)
               /\ lastOp' = "SettleOk"
               /\ ClosesOnSuccess(inflight[i]) )
             => /\ RunsResetAndHide
                /\ ResetTerminal(State)'
                /\ issued'[Len(issued')].cmd = "hide_window"
       /\ (\E k \in 1..Len(issued') : issued'[k].cmd \in ActivationCmds) =>
             /\ ~RunsResetAndHide
             /\ UNCHANGED <<query, currentMode, isScriptMode, selectedIndex,
                            isVisible, windowShown>>]_vars

\* A script's open action has succeeded and the session is closed
C18_Witness ==
    /\ lastOp = "SettleOk"
    /\ answered # << >> /\ answered[1].cmd = "open_url"
    /\ ResetTerminal(State)
    /\ hideCalls > 0

\* ------------------------------------------------------------------ C19
\* Enter or Tab is pressed on a selected item of the results list of the given
\* exec kind, outside Script mode
PressedOn(keys, kind) ==
    /\ lastOp' \in keys
    /\ view = "launcher"
    /\ ~isScriptMode
    /\ HasItem(results, selectedIndex)
    /\ At(results, selectedIndex).exec.kind = kind

\* The session the step leaves, with the calls the step issued and settled
NextSession == [State' EXCEPT !.issued = issued', !.answered = answered']

\* What activating a fill:<text> item leaves: the query is <text>, the search
\* for <text> has been re-run (outside Clipboard mode the one backend request
\* that belongs to <text>; in Clipboard mode the local filter), nothing is
\* hidden, reset, launched or opened
FillEffect(s, n, text) ==
    /\ n.query = text
    /\ n.issued = IF s.currentMode = "clipboard" THEN << >>
                  ELSE <<RequestFor(text, s.availableScripts)>>
    /\ s.currentMode = "clipboard" =>
          n.results = updateClipboardSuggestions(s, text).results
    /\ n.hideCalls = s.hideCalls
    /\ n.isVisible = s.isVisible /\ n.windowShown = s.windowShown
    /\ n.currentMode = s.currentMode /\ n.view = s.view

\* C19: fill: keeps the window open.  Activating an item whose exec is
\* fill:<text> (by click, Enter or Tab) sets the query to <text> and re-runs
\* the search for <text>; neither that step nor the one in which the re-run
\* search settles hides the window, performs reset-and-hide or calls
\* launch_app or open_path.
C19_FillKeepsOpen ==
    [][/\ \A k \in 1..Len(results) :
             results[k].exec.kind = "fill" =>
                 FillEffect(State, handleActivate(State, results[k]),
                            results[k].exec.arg)
       /\ PressedOn({"Enter", "Tab"}, "fill") =>
             FillEffect(State, NextSession,
                        At(results, selectedIndex).exec.arg)
       /\ \A i \in 1..Len(inflight) :
             (SettlesCall(i) /\ inflight[i].awaited) =>
                 /\ issued' = << >>
                 /\ UNCHANGED <<query, currentMode, isVisible, hideCalls,
                                windowShown, view>>]_vars

\* Enter on the fill: item of the list for "a" put its text into the query and
\* searched for it, the window still open
C19_Witness ==
    /\ lastOp = "Enter"
    /\ prev.query = <<"a">>
    /\ query = FillText
    /\ issued = <<Req("search", EmptyStr, FillText)>>
    /\ isVisible /\ windowShown /\ hideCalls = 0

\* ------------------------------------------------------------------ C20
\* What n keeps of session s: query, mode, item lists, selection, visibility,
\* and no hide_window requested
SessionKept(s, n) ==
    /\ n.query = s.query
    /\ n.currentMode = s.currentMode /\ n.isScriptMode = s.isScriptMode
    /\ n.activeScriptKeyword = s.activeScriptKeyword
    /\ n.results = s.results /\ n.scriptResults = s.scriptResults
    /\ n.selectedIndex = s.selectedIndex
    /\ n.isVisible = s.isVisible /\ n.windowShown = s.windowShown
    /\ n.hideCalls = s.hideCalls

\* What activating an install:<arg> item leaves: one launch_app call carrying
\* install:<arg>, and the session as it was
InstallEffect(s, n, arg) ==
    /\ n.issued = <<Req("launch_app", EmptyStr, InstallPrefix \o arg)>>
    /\ Len(n.inflight) = Len(s.inflight) + 1
    /\ SessionKept(s, n)

\* C20: install: keeps the window open.  Activating an item whose exec is
\* install:<arg> (by click or Enter) invokes the install backend call exactly
\* once; that step and the one in which the call settles, successfully or
\* not, leave the query, mode, item lists, selection and visibility unchanged
\* and request no hide (no reset-and-hide).
C20_InstallKeepsOpen ==
    [][/\ \A k \in 1..Len(results) :
             results[k].exec.kind = "install" =>
                 InstallEffect(State, handleActivate(State, results[k]),
                               results[k].exec.arg)
       /\ PressedOn({"Enter"}, "install") =>
             InstallEffect(State, NextSession, At(results, selectedIndex).exec.arg)
       /\ \A i \in 1..Len(inflight) :
             (SettlesCall(i) /\ IsInstallCall(inflight[i])) =>
                 /\ issued' = << >>
                 /\ SessionKept(State, NextSession)]_vars

\* The install call of a clicked or entered install: item has succeeded and the
\* list it came from is still shown for the same query
C20_Witness ==
    /\ lastOp = "SettleOk"
    /\ answered # << >> /\ IsInstallCall(answered[1])
    /\ query = <<"a">>
    /\ isVisible /\ windowShown /\ hideCalls = 0
    /\ \E k \in 1..Len(results) : results[k].exec.kind = "install"

\* ------------------------------------------------------------------ C21
\* The selected item of the results list, outside Script mode and in the
\* launcher view, has an exec of the given kind
SelectedIs(kind) ==
    /\ view = "launcher"
    /\ ~isScriptMode
    /\ HasItem(results, selectedIndex)
    /\ At(results, selectedIndex).exec.kind = kind

\* Session t has the backend calls, the query, the window state and the
\* selection of session e
SameContinuation(t, e) ==
    /\ t.issued = e.issued
    /\ t.inflight = e.inflight
    /\ t.query = e.query
    /\ t.isVisible = e.isVisible /\ t.windowShown = e.windowShown
    /\ t.hideCalls = e.hideCalls
    /\ t.selectedIndex = e.selectedIndex

\* C21 as claimed: on a selected fill: or install: item a Tab press (with or
\* without Shift) does what an Enter press does.
C21_Original ==
    \A kind \in {"fill", "install"}, shiftKey \in BOOLEAN :
        SelectedIs(kind) =>
            SameContinuation(keyPressed(State, "Tab", FALSE, shiftKey),
                             keyPressed(State, "Enter", FALSE, FALSE))

\* What Tab leaves on a selected install:<arg> item: the query is
\* "install <arg> " and the search for it has been run; nothing is installed,
\* launched or hidden, no activation starts and the selection is not moved
\* by +1 / -1 (the local filter of Clipboard mode selects the first entry)
InstallCompletion(s, n, arg) ==
    LET q == (InstallWord \o <<SP>>) \o arg \o <<SP>>
    IN  /\ n.query = q
        /\ n.issued = IF s.currentMode = "clipboard" THEN << >>
                      ELSE <<RequestFor(q, s.availableScripts)>>
        /\ n.actionInFlight = s.actionInFlight
        /\ n.graceTimers = s.graceTimers
        /\ n.isVisible = s.isVisible /\ n.windowShown = s.windowShown
        /\ n.hideCalls = s.hideCalls
        /\ n.currentMode = s.currentMode
        /\ n.selectedIndex = IF s.currentMode = "clipboard" THEN 0
                             ELSE s.selectedIndex

\* C21 (amended): Tab autocomplete.  On a selected fill: item a Tab press
\* (with or without Shift) leaves exactly the session an Enter press on that
\* item leaves.  On a selected install:<arg> item Tab does not activate: it
\* sets the query to "install <arg> " and runs the search for that query,
\* without calling launch_app.  In neither case is the +1 / -1 selection
\* movement applied.
C21_TabAutocomplete ==
    [][/\ SelectedIs("fill") =>
             /\ \A shiftKey \in BOOLEAN :
                    keyPressed(State, "Tab", FALSE, shiftKey)
                        = keyPressed(State, "Enter", FALSE, FALSE)
             /\ lastOp' = "Tab" => NextSession = keyPressed(State, "Enter", FALSE, FALSE)
             /\ lastOp' = "Tab" =>
                    FillEffect(State, NextSession, At(results, selectedIndex).exec.arg)
       /\ SelectedIs("install") =>
             /\ \A shiftKey \in BOOLEAN :
                    InstallCompletion(State, keyPressed(State, "Tab", FALSE, shiftKey),
                                      At(results, selectedIndex).exec.arg)
             /\ lastOp' = "Tab" =>
                    InstallCompletion(State, NextSession,
                                      At(results, selectedIndex).exec.arg)]_vars

\* Tab on the install: item of the list for "a" completed the query to
\* "install x " and searched for it
C21_Witness ==
    /\ lastOp = "Tab"
    /\ prev.query = <<"a">>
    /\ query = (InstallWord \o <<SP>>) \o InstallArg \o <<SP>>
    /\ issued = <<Req("search", EmptyStr, query)>>
    /\ ~actionInFlight

\* ------------------------------------------------------------------ C22
\* Tab finds no fill: / install: item to complete
NothingToComplete ==
    ~(\E kind \in {"fill", "install"} :
          /\ ~isScriptMode
          /\ HasItem(results, selectedIndex)
          /\ At(results, selectedIndex).exec.kind = kind)

\* C22: Tab navigation.  When the selected item's exec carries neither the
\* fill: nor the install: prefix (and always in Script mode), a Tab press
\* leaves exactly the session an ArrowDown press leaves and a Shift+Tab press
\* the one an ArrowUp press leaves (wraparound included); only the selection
\* differs from the session before.
C22_TabNavigation ==
    [][NothingToComplete =>
          LET down == keyPressed(State, "ArrowDown", FALSE, FALSE)
              up == keyPressed(State, "ArrowUp", FALSE, FALSE)
          IN  /\ keyPressed(State, "Tab", FALSE, FALSE) = down
              /\ keyPressed(State, "Tab", FALSE, TRUE) = up
              /\ down = [State EXCEPT !.selectedIndex = down.selectedIndex]
              /\ up = [State EXCEPT !.selectedIndex = up.selectedIndex]
              /\ lastOp' = "Tab" => NextSession \in {down, up}]_vars

\* Tab was pressed on a list of three suggestions and the last one is selected
\* (Tab from the second, or Shift+Tab wrapping from the first)
C22_Witness ==
    /\ lastOp = "Tab"
    /\ prev.view = "launcher"
    /\ ~isScriptMode
    /\ Len(results) = 3
    /\ \A k \in 1..3 : results[k].exec.kind = "plain"
    /\ selectedIndex = 2
    /\ issued = << >>

\* ------------------------------------------------------------------ C23
\* The active mode of the session: Clipboard replaces the launcher view, and
\* within the launcher view the Script flag selects Script
ActiveMode(s) ==
    IF s.currentMode = "clipboard" THEN "Clipboard"
    ELSE IF s.isScriptMode THEN "Script"
    ELSE "Launcher"

\* The list of the active mode
ActiveList(s) == IF ActiveMode(s) = "Script" THEN s.scriptResults ELSE s.results

\* C23: Enter routing.  An Enter press in Browsing state with a non-empty
\* active list hands the currently selected item of that list, once, to the
\* handler of the active mode: handleScriptActivate in Script mode,
\* handleActivate in Launcher and Clipboard mode.
C23_EnterRouting ==
    [][(lastOp' = "Enter" /\ view = "launcher" /\ Len(ActiveList(State)) > 0) =>
          /\ HasItem(ActiveList(State), selectedIndex)
          /\ NextSession =
                IF ActiveMode(State) = "Script"
                THEN handleScriptActivate(State, At(scriptResults, selectedIndex))
                ELSE handleActivate(State, At(results, selectedIndex))]_vars

\* ------------------------------------------------------------------ C24
OtherView(v) == IF v = "launcher" THEN "settings" ELSE "launcher"

\* C24: settings state machine.  The settings hotkey (Ctrl+,) toggles between
\* Browsing and SettingsOpen from any state, also with an empty active list,
\* and does nothing else.  In SettingsOpen, Enter returns to Browsing and does
\* nothing else; Escape returns to Browsing (and does nothing else while the
\* settings view is what the window shows); every other key is swallowed: it
\* changes nothing of the session and issues no call.
C24_SettingsStateMachine ==
    [][/\ lastOp' = "," => NextSession = [State EXCEPT !.view = OtherView(view)]
       /\ (view = "settings" /\ lastOp' = "Enter") =>
             NextSession = [State EXCEPT !.view = "launcher"]
       /\ (view = "settings" /\ lastOp' = "Escape") =>
             /\ view' = "launcher"
             /\ vantaConfig => NextSession = [State EXCEPT !.view = "launcher"]
       /\ (view = "settings" /\ lastOp' \in {"ArrowDown", "ArrowUp", "Tab", "x"}) =>
             NextSession = State]_vars

\* ArrowDown was pressed in SettingsOpen over a list of two items and the
\* selection stayed on the first
C24_Witness ==
    /\ lastOp = "ArrowDown"
    /\ prev.view = "settings" /\ view = "settings"
    /\ totalItems(State) = 2
    /\ selectedIndex = 0

\* ------------------------------------------------------------------ C25
\* C25: empty list blocks navigation.  When the active mode's list is empty,
\* ArrowDown, ArrowUp, Tab, Shift+Tab and Enter change nothing of the session
\* and issue no backend call.
C25_EmptyListBlocksNavigation ==
    [][(view = "launcher" /\ Len(ActiveList(State)) = 0
           /\ lastOp' \in {"ArrowDown", "ArrowUp", "Tab", "Enter"}) =>
          NextSession = State]_vars

\* C25 where the handler's count is that of the active list
EmptyCountBlocksNavigation ==
    [][(view = "launcher" /\ totalItems(State) = 0
           /\ lastOp' \in {"ArrowDown", "ArrowUp", "Tab", "Enter"}) =>
          NextSession = State]_vars

\* ------------------------------------------------------------------ C26
\* C26: mode transition clears the previous list.  Immediately after a
\* transition into Script mode the launcher / clipboard result list is empty,
\* and immediately after a transition out of Script mode, to Launcher or to
\* Clipboard, the script item list is empty.
C26_TransitionClearsList ==
    [][/\ (ActiveMode(State) # "Script" /\ ActiveMode(State)' = "Script") =>
             results' = << >>
       /\ (ActiveMode(State) = "Script" /\ ActiveMode(State)' # "Script") =>
             scriptResults' = << >>]_vars

\* ------------------------------------------------------------------ C27
\* What the empty-query branch of handleSearch leaves behind
SuggestionsReloading ==
    /\ issued = <<Req("get_suggestions", EmptyStr, EmptyStr)>>
    /\ inflight # << >> /\ inflight[Len(inflight)].cmd = "get_suggestions"
    /\ ~isScriptMode /\ activeScriptKeyword = EmptyStr
    /\ scriptResults = << >>
    /\ searchTime = Null

GetSuggestions == Req("get_suggestions", EmptyStr, EmptyStr)

\* The focus listener and a failing suggestions load, whatever the condition
\* of the reload: the event itself only marks the window visible and starts
\* the 50 ms timer; the timer changes no list; a failed load changes nothing
FocusFrame ==
    /\ lastOp' = "WindowFocus" =>
          NextSession = [State EXCEPT !.isVisible = TRUE, !.windowShown = TRUE,
                                      !.focusTimers = @ + 1]
    /\ lastOp' = "FocusTimerFire" =>
          /\ UNCHANGED <<query, results, scriptResults, selectedIndex, searchTime,
                         currentMode, isScriptMode, activeScriptKeyword, isVisible>>
          /\ issued' \in {<< >>, <<GetSuggestions>>}
    /\ \A i \in 1..Len(inflight) :
          (SettlesCall(i) /\ lastOp' = "SettleFail"
              /\ inflight[i].cmd = "get_suggestions" /\ ~inflight[i].awaited) =>
              NextSession = [State EXCEPT !.inflight = RemoveAt(@, i),
                                          !.answered = <<inflight[i]>>]

\* C28 as claimed: the refresh after focus-regained issues get_suggestions if
\* and only if the mode is Launcher and the query is empty.
C28_Original ==
    [][/\ FocusFrame
       /\ lastOp' = "FocusTimerFire" =>
             issued' = IF ActiveMode(State) = "Launcher" /\ query = EmptyStr
                       THEN <<GetSuggestions>> ELSE << >>]_vars

\* C28 (amended): focus-regained refresh.  50 ms after a window-focus-regained
\* event get_suggestions is reissued if and only if the session is not in
\* Clipboard mode and the query is empty after trimming (a whitespace-only
\* query counts as empty; a query that keeps the session in Script mode is
\* non-empty); in Clipboard mode or with any other query no load is issued;
\* the item lists are left unchanged by the event and by the timer; a failure
\* of that load changes no state.
C28_FocusRefresh ==
    [][/\ FocusFrame
       /\ lastOp' = "FocusTimerFire" =>
             issued' = IF currentMode = "launcher" /\ trim(query) = EmptyStr
                       THEN <<GetSuggestions>> ELSE << >>]_vars

\* The refresh after focus-regained reloaded the suggestions although the
\* query holds a space
C28_Witness ==
    /\ lastOp = "FocusTimerFire"
    /\ query = <<SP>>
    /\ currentMode = "launcher"
    /\ issued = <<GetSuggestions>>

\* ------------------------------------------------------------------ C29
\* C29: registry snapshot.  A scripts-changed event replaces the registry by
\* its payload in one step that changes nothing else; no other step changes
\* the registry; and every classification (a debounce firing of the launcher
\* input outside Clipboard mode) sends the request that belongs to the query
\* under the registry as it is at that step: a keyword the event removed
\* resolves to Launcher, a keyword it added resolves to Script.
C29_RegistrySnapshot ==
    [][/\ lastOp' = "ScriptsChanged" =>
             /\ availableScripts' \in Registries \ {availableScripts}
             /\ NextSession = [State EXCEPT !.availableScripts = availableScripts']
       /\ lastOp' # "ScriptsChanged" => availableScripts' = availableScripts
       /\ (lastOp' = "DebounceFire" /\ currentMode # "clipboard") =>
             /\ issued' = <<RequestFor(query, availableScripts)>>
             /\ isScriptMode' = detectScriptQuery(query, availableScripts).matched
             /\ (trim(query) # EmptyStr /\ availableScripts = << >>) =>
                    issued'[1].cmd = "search"]_vars

\* The event has removed the keyword "h" while its script is the active one:
\* the query "h a" now resolves to Launcher
C29_Witness ==
    /\ lastOp = "ScriptsChanged"
    /\ availableScripts = << >>
    /\ isScriptMode /\ activeScriptKeyword = <<"h">>
    /\ query = <<"h", SP, "a">>
    /\ ~detectScriptQuery(query, availableScripts).matched
    /\ RequestFor(query, availableScripts) = Req("search", EmptyStr, query)

\* ------------------------------------------------------------------ C30
\* How the steps of the session treat the debounce timers
DebounceSteps ==
    /\ lastOp' = "Input" =>
          (LET inst == InputInstance(State)
           IN  /\ debounceTimer'[inst] = 1
               /\ \A other \in {"launcher", "clipboard"} \ {inst} :
                      debounceTimer'[other] = debounceTimer[other]
               /\ issued' = << >>)
    /\ lastOp' = "DebounceFire" =>
          /\ debounceTimer["launcher"] = 1 /\ debounceTimer'["launcher"] = 0
          /\ Len(issued') <= 1
    /\ lastOp' = "ClipDebounceFire" =>
          /\ debounceTimer["clipboard"] = 1 /\ debounceTimer'["clipboard"] = 0
          /\ issued' = << >>
    /\ ~(lastOp' \in {"Input", "DebounceFire", "ClipDebounceFire"}) =>
          debounceTimer' = debounceTimer

OneShotLoads == {"get_installed_themes", "get_config", "get_scripts"}

\* The call onMount goes on with after the one-shot load cmd
NextMountCall(cmd) ==
    IF cmd = "get_installed_themes"
    THEN Call("get_config", EmptyStr, EmptyStr, "config", FALSE)
    ELSE IF cmd = "get_config"
    THEN Call("get_scripts", EmptyStr, EmptyStr, "scripts", FALSE)
    ELSE listenCall(MountEvents[1])

\* The step settles a call of the given commands
Settles(cmds) ==
    /\ IsSettle(lastOp')
    /\ answered' # << >>
    /\ answered'[1].cmd \in cmds

\* What a query resolves to with the registry of the session
ResolvesToLauncher(q) ==
    /\ ~detectScriptQuery(q, availableScripts).matched
    /\ RequestFor(q, availableScripts).cmd \in {"search", "get_suggestions"}

MountSteps ==
    /\ Settles(OneShotLoads) =>
          LET call == answered'[1]
              next == NextMountCall(call.cmd)
          IN  \* the remaining loads and subscriptions go on, whatever the outcome
              /\ issued' = <<Req(next.cmd, next.kw, next.arg)>>
              /\ inflight'[Len(inflight')] = next
              /\ listening' = listening
              \* a failed load leaves every snapshot, and the rest of the
              \* session, as it was: the defaults, on this first load
              /\ lastOp' = "SettleFail" =>
                    /\ \E i \in 1..Len(inflight) :
                          /\ inflight[i] = call
                          /\ NextSession =
                                invoke([State EXCEPT !.inflight = RemoveAt(@, i),
                                                     !.answered = <<call>>], next)
                    /\ call.cmd = "get_installed_themes" => availableThemes' = << >>
                    /\ call.cmd = "get_config" => vantaConfig' = FALSE
                    /\ call.cmd = "get_scripts" => availableScripts' = << >>
    \* every subscription, then the initial suggestions load
    /\ (Settles({"listen"}) /\ lastOp' = "SettleOk") =>
          LET event == answered'[1].arg[1]
              k == CHOOSE j \in 1..Len(MountEvents) : MountEvents[j] = event
          IN  /\ listening' = listening \cup {event}
              /\ issued' = IF k < Len(MountEvents)
                           THEN <<Req("listen", EmptyStr, <<MountEvents[k + 1]>>)>>
                           ELSE <<Req("get_suggestions", EmptyStr, EmptyStr)>>
    \* the registry changes with a loaded get_scripts or a scripts-changed
    \* event, and with nothing else
    /\ availableScripts' # availableScripts =>
          \/ lastOp' = "ScriptsChanged"
          \/ Settles({"get_scripts"}) /\ lastOp' = "SettleOk"

MountStates ==
    /\ availableScripts = << >> =>
          /\ \A q \in Queries : ResolvesToLauncher(q)
          /\ IsDebounceFire(lastOp) =>
                 \A k \in 1..Len(issued) : issued[k].cmd # "execute_script"
    /\ "tauri://focus" \in listening => listening = AllEvents

\* C31: one-shot loads fail open.  When the initial get_installed_themes,
\* get_config or get_scripts call fails, its snapshot keeps the empty default
\* and nothing else of the session changes; whatever the outcome, onMount goes
\* on with the next load, then with its subscriptions (each listen call that
\* succeeds registers its listener and is followed by the next), and after the
\* last one issues the initial get_suggestions.  While the registry is empty
\* (a failed get_scripts, until scripts-changed delivers one) every query
\* resolves to Launcher and no debounce firing issues execute_script.
C31_OneShotLoadsFailOpen == []MountStates /\ [][MountSteps]_vars

\* onMount has finished with every listener registered and the initial
\* suggestions load issued although get_config had failed (no config is
\* loaded) and no theme and no script was loaded
C31_Witness ==
    /\ lastOp = "SettleOk"
    /\ answered # << >> /\ answered[1].cmd = "listen"
    /\ listening = AllEvents
    /\ issued = <<Req("get_suggestions", EmptyStr, EmptyStr)>>
    /\ ~vantaConfig
    /\ availableThemes = << >>
    /\ availableScripts = << >>

\* ------------------------------------------------------------------ C32
\* The list the template shows and the item it shows as selected
DisplayedList(s) ==
    IF RenderedList(s) = "script" THEN s.scriptResults
    ELSE IF RenderedList(s) = "results" THEN s.results
    ELSE << >>

\* The step activates nothing: no backend call, no query filled in, no
\* reset-and-hide, the flag as it was
ActivatesNothing ==
    /\ issued' = << >>
    /\ query' = query
    /\ actionInFlight' = actionInFlight
    /\ graceTimers' = graceTimers
    /\ hideCalls' = hideCalls

\* The step is the activation of the item shown as selected
ActivatesDisplayed ==
    /\ HasItem(DisplayedList(State), selectedIndex)
    /\ \/ /\ RenderedList(State) = "script"
          /\ NextSession =
                handleScriptActivate(State, At(scriptResults, selectedIndex))
       \/ /\ RenderedList(State) = "results"
          /\ NextSession = handleActivate(State, At(results, selectedIndex))

EnterOnDisplayed ==
    (lastOp' = "Enter" /\ view = "launcher") =>
        ActivatesNothing \/ ActivatesDisplayed

\* C32: Enter activates what is displayed.  An Enter press in the launcher
\* view activates nothing or the item shown as selected in the displayed list:
\* in Script mode never an entry of the hidden result list, in Clipboard mode
\* never a script item.
C32_EnterActivatesDisplayed == [][EnterOnDisplayed]_vars

\* The same outside the Clipboard view
EnterOnDisplayedLauncher == [][currentMode = "launcher" => EnterOnDisplayed]_vars

\* ------------------------------------------------------------------ C33
\* The execute_script requests in flight, and the one issued last
ScriptCallsInFlight == {i \in 1..Len(inflight) : inflight[i].cmd = "execute_script"}
LatestScriptCall ==
    inflight[CHOOSE i \in ScriptCallsInFlight : \A j \in ScriptCallsInFlight : j <= i]

\* The script items the user can activate by a click or by Enter: the session
\* shows the script list and the item carries an action
ActivatableScriptItems ==
    IF windowShown /\ isScriptMode /\ RenderedList(State) = "script"
    THEN {i \in 1..Len(scriptResults) : scriptResults[i].action.type # "none"}
    ELSE {}

\* C33: script items belong to the active script.  In Script mode every item
\* that can be activated was returned for the active keyword, and while an
\* execute_script request is in flight every such item was returned for the
\* keyword and the arguments of the request issued last.
C33_ScriptItemsBelong ==
    \A i \in ActivatableScriptItems :
        /\ scriptResults[i].kw = activeScriptKeyword
        /\ ScriptCallsInFlight # {} =>
              /\ scriptResults[i].kw = LatestScriptCall.kw
              /\ scriptResults[i].args = LatestScriptCall.arg

\* ------------------------------------------------------------------ C34
\* Enter is pressed on a script item that has no action
EnterOnNoAction ==
    /\ lastOp' = "Enter"
    /\ view = "launcher"
    /\ isScriptMode
    /\ HasItem(scriptResults, selectedIndex)
    /\ At(scriptResults, selectedIndex).action.type = "none"

\* Activating any listed item without an action, or the synthetic error item
\* of any keyword, returns the session it was given
NoActionIsNoOp ==
    /\ \A i \in 1..Len(scriptResults) :
          scriptResults[i].action.type = "none" =>
              handleScriptActivate(State, scriptResults[i]) = State
    /\ \A k \in 1..Len(availableScripts) :
          handleScriptActivate(State, ScriptErrorItem(availableScripts[k].keyword))
              = State

NoActionSteps ==
    EnterOnNoAction =>
        /\ NextSession = State
        /\ issued' = << >>
        /\ actionInFlight' = actionInFlight
        /\ graceTimers' = graceTimers
        /\ hideCalls' = hideCalls /\ isVisible' = isVisible
        /\ Len(inflight') = Len(inflight)

\* C34: script item without an action.  Activating a script item that has no
\* action (such as the synthetic error item), by a click or by Enter, is a
\* no-op: no backend call is issued, actionInFlight is not raised, no grace
\* timer is started, no reset-and-hide occurs and the session is unchanged.
C34_NoActionNoOp == []NoActionIsNoOp /\ [][NoActionSteps]_vars

\* Enter was pressed on the error item shown after a failed execute_script,
\* and nothing was issued and no activation is in progress
C34_Witness ==
    /\ lastOp = "Enter"
    /\ view = "launcher" /\ prev.view = "launcher"
    /\ isScriptMode
    /\ scriptResults = <<ScriptErrorItem(activeScriptKeyword)>>
    /\ selectedIndex = 0
    /\ issued = << >>
    /\ ~actionInFlight /\ graceTimers = 0 /\ hideCalls = 0 /\ isVisible

\* ------------------------------------------------------------------ C35
\* content contains q, letter case ignored
ContainsIgnoringCase(content, q) ==
    \E i \in 0..(Len(content) - Len(q)) :
        \A j \in 1..Len(q) : LowerChar(content[i + j]) = LowerChar(q[j])

MatchingEntries(history, q) ==
    {i \in 1..Len(history) : ContainsIgnoringCase(history[i].content, q)}

\* list is exactly the entries of history that contain q, in history order,
\* each as a Clipboard item with exec copy:<content>
IsClipboardListFor(list, history, q) ==
    /\ Len(list) = Cardinality(MatchingEntries(history, q))
    /\ \A k \in 1..Len(list) :
          /\ list[k].source = "Clipboard"
          /\ \E i \in MatchingEntries(history, q) :
                /\ list[k].rank = history[i].id
                /\ list[k].exec = Exec("copy", history[i].content)
                /\ Cardinality({j \in MatchingEntries(history, q) : j < i}) = k - 1

\* The latest step ran a search in Clipboard mode: a debounce firing, the
\* clear button, or an activation that filled in the query
ClipboardSearchRan ==
    /\ prev.currentMode = "clipboard"
    /\ currentMode = "clipboard"
    /\ \/ IsDebounceFire(lastOp)
       \/ lastOp = "ClearButton"
       \/ lastOp \in {"Enter", "Click", "Tab"} /\ query # prev.query

\* C35: Clipboard search is local.  In Clipboard mode a search for a changed
\* query issues no backend call; the result list becomes exactly the entries
\* of the clipboard history whose content contains the query, letter case
\* ignored (all entries for an empty query), in history order, each with exec
\* copy:<content>, and the selection is reset to 0.
C35_ClipboardSearchLocal ==
    ClipboardSearchRan =>
        /\ issued = << >>
        /\ IsClipboardListFor(results, clipboardHistory, query)
        /\ selectedIndex = 0

\* The debounced query "a" kept the entry "Ab" of a two-entry history and
\* dropped the entry "h"
C35_Witness ==
    /\ lastOp = "ClipDebounceFire"
    /\ currentMode = "clipboard"
    /\ query = <<"a">>
    /\ Len(clipboardHistory) = 2
    /\ Len(results) = 1
    /\ results[1].exec = Exec("copy", <<"A", "b">>)
    /\ issued = << >>

\* ------------------------------------------------------------------ C36
\* The window has left the screen after a reset-and-hide
HiddenAfterReset == ~isVisible /\ ~windowShown

SessionIsReset == query = EmptyStr /\ selectedIndex = 0

\* C36: hidden session stays reset.  In every reachable state in which the
\* window is hidden after a reset-and-hide (visible = false), the query is
\* empty and the selection is 0.
C36_HiddenSessionStaysReset == HiddenAfterReset => SessionIsReset

\* The steps that are no user or push event: timers and responses
TimerOrResponse(op) ==
    op \in {"DebounceFire", "ClipDebounceFire", "SettleOk", "SettleFail",
            "HideSettle", "HideSettleFail", "GraceTimerFire", "FocusTimerFire"}

\* A reset-and-hide leaves the query empty and the selection 0, and while
\* visible = false no timer and no response changes either
HiddenResetStable ==
    [][/\ RunsResetAndHide => (~isVisible' /\ query' = EmptyStr /\ selectedIndex' = 0)
       /\ (~isVisible /\ SessionIsReset /\ TimerOrResponse(lastOp')) =>
             (query' = EmptyStr /\ selectedIndex' = 0)]_vars

\* ------------------------------------------------------------------ C37
\* C37: download status is not cleared by a stale timer.  Once a
\* download_status event has set the status to downloading, only the next
\* download_status event changes it: no return-to-idle timer started by an
\* earlier success or failed event resets it.
C37_DownloadingKept ==
    [][(downloadStatus = "downloading" /\ downloadStatus' # "downloading")
          => lastOp' = "DownloadStatus"]_vars

\* A shown success or failed status has its return-to-idle timer pending
FinishedHasTimer ==
    downloadStatus \in {"success", "failed"} => idleTimers # << >>

\* Every timer fires, and when the last one has fired the status is idle
\* unless a downloading event came after the last success or failed event
IdleEventually ==
    /\ <>[](idleTimers = << >>)
    /\ [](idleTimers = << >> => downloadStatus \in {"idle", "downloading"})

\* ------------------------------------------------------------------ C38
IsSaveTimerFire(op) == op \in {"SaveTimerFire", "OrphanSaveTimerFire"}

\* An edit issues nothing and leaves a timer pending; the firing of a save
\* timer issues exactly one save_config carrying the configuration as it is
\* at that moment; a settled save_config, failed or not, leaves the
\* configuration as it was
SaveSteps ==
    /\ lastOp' = "SettingsEdit" =>
          /\ issued' = << >>
          /\ saveTimers'.live = 1
    /\ IsSaveTimerFire(lastOp') =>
          /\ issued' = <<Req("save_config", EmptyStr, <<configValue>>)>>
          /\ configValue' = configValue
          /\ saveTimers'.live + saveTimers'.orphan
                = saveTimers.live + saveTimers.orphan - 1
    /\ Settles({"save_config"}) =>
          /\ configValue' = configValue
          /\ vantaConfig' = vantaConfig
          /\ issued' = << >>

\* C38: settings save debounce.  At most one save timer is pending at any
\* time; an edit restarts it and issues nothing, so that edits less than
\* 500 ms apart end in exactly one save_config call, issued when the timer of
\* the last edit fires and carrying the configuration as it is at that
\* moment; a failed save_config leaves the in-memory configuration unchanged.
C38_SaveDebounce ==
    /\ [](saveTimers.live + saveTimers.orphan <= 1)
    /\ [][SaveSteps]_vars

\* The same with the timers counted for the SettingsView instance on screen
SaveDebouncePerInstance ==
    /\ [](saveTimers.live <= 1)
    /\ [][SaveSteps]_vars

====
